---- MODULE Spec2Model ----
(***************************************************************************)
(* A model of block2's sweep driver (src/src/block2/sweep_algorithm.hpp:   *)
(* DMRG, ImaginaryTE, Compress, Expect) and of its distributed contraction *)
(* engine (src/src/block2/parallel_tensor_functions.hpp).                  *)
(*                                                                         *)
(* The sweep driver is a single control sequence: solve -> sweep ->        *)
(* blocking -> update_two_dot.  Every update function is translated into   *)
(* the sequence of operations it performs, in the order of the source      *)
(* (an "op list"); the state after a blocking step is obtained by running  *)
(* that list through the interpreters below (stack arena, canonical-form   *)
(* tags, position of the moving environment).                              *)
(***************************************************************************)
EXTENDS Integers, Sequences, FiniteSets, Bags, TLC

(* ------------------------------ bounds -------------------------------- *)
\* longest chain explored (n_sites ranges over 2..MaxSites)
MaxSites == 4
\* largest n_sweeps argument of solve
MaxSweeps == 3
\* longest bond-dimension / noise schedule handed to a constructor
MaxSched == 4
\* largest ImaginaryTE::n_sub_sweeps
MaxSub == 2
\* number of solve calls made on one algorithm object
MaxCalls == 2
\* successive calls of the distributed multiply on one output
MaxReduce == 2
\* largest number of distinct operators of an operator tensor
MaxOps == 2
\* largest number of label blocks of a density matrix
MaxBlocks == 3
\* largest weight of a label block
MaxWeight == 2
\* largest number of target states of a multi-target state
MaxRoots == 2

VARIABLES
    alg,            \* which algorithm object is driven: DMRG, TE, Compress, Expect
    n_sites,        \* me->n_sites
    me_center,      \* me->center
    me_dot,         \* me->dot
    bra_is_ket,     \* me->bra == me->ket (one state object)
    multi,          \* the state is a MultiMPS (tags M instead of C)
    canonical_form, \* mps -> site -> tag
    conf,           \* public configuration members of the algorithm object
    bond_dims,      \* DMRG/ImaginaryTE bond_dims, Compress bra_bond_dims
    ket_bond_dims,  \* Compress ket_bond_dims
    noises,         \* noises
    davidson_conv_thrds, \* DMRG::davidson_conv_thrds
    this_forward,   \* the object's stored forward flag
    energies,       \* DMRG::energies (one vector per sweep), ImaginaryTE::energies
    normsqs,        \* ImaginaryTE::normsqs
    norms,          \* Compress::norms
    expectations,   \* Expect::expectations (one entry per position)
    pc,             \* idle, loop, sweep, done, error (runtime_error), abort (assert)
    args,           \* what the caller does: arguments of solve, number of calls
    iw,             \* solve: sweep index
    isw,            \* ImaginaryTE::solve: sub-sweep index
    forward,        \* solve: the local variable forward
    sweep_range,    \* sweep: positions still to visit
    sweep_res,      \* sweep: the local result vectors (one entry per position)
    arena,          \* the two-frame stack arena: [stack, active, ok]
    hist            \* history of the running call, kept for the properties

\* one call of the distributed multiply, running on every worker
VARIABLES
    callee,         \* tensor_product_multiply or tensor_product_multi_multiply
    expr,           \* worker -> the expression it was handed
    all_reduce,     \* the all_reduce argument
    cmats,          \* the input vectors (one for tensor_product_multiply)
    vmats,          \* worker -> its output vectors
    ppc,            \* worker -> how many steps of its call it has taken
    comm,           \* how many collectives the running call has completed
    ptf_hist        \* the calls made so far, the outputs at the last entry,
                    \* the mode of the sequencer, what it has queued and
                    \* the reduce-sums completed

sweep_vars ==
    << alg, n_sites, me_center, me_dot, bra_is_ket, multi, canonical_form,
       conf, bond_dims, ket_bond_dims, noises, davidson_conv_thrds,
       this_forward, energies, normsqs, norms, expectations, pc, args, iw, isw,
       forward, sweep_range, sweep_res, arena, hist >>

\* a call of left_rotate / right_rotate on every worker
VARIABLES
    rot,            \* the call: function, direction, seq mode, symbolic
                    \* vector of a, the rule, a's factor, equal block counts
    rpc,            \* worker -> the loop it is in and its index
    c_ops,          \* worker -> operator -> its block of the destination c
    c_mat,          \* worker -> the symbolic vector of the destination c
    sent,           \* operator -> the block its owner has broadcast
    nrot            \* worker -> operator -> times tensor_rotate was called

\* a call of numerical_transform on one worker
VARIABLES
    nt              \* the arguments, the loop index, the queued and the
                    \* performed accumulations, the reductions issued

\* the truncations of one density matrix
VARIABLES
    tr              \* the block weights and the last two truncations of them

\* the weighted expectation of a multi-target state
VARIABLES
    ex              \* the Expect object's partition weights, the values of
                    \* one operator per target state and the value reported

ptf_vars == << callee, expr, all_reduce, cmats, vmats, ppc, comm, ptf_hist >>

rot_vars == << rot, rpc, c_ops, c_mat, sent, nrot >>

eng_vars == << ptf_vars, rot_vars, nt, tr, ex >>

vars == << sweep_vars, eng_vars >>

(* ------------------------- operations (op lists) ----------------------- *)
\* one operation of an update function: the call, the state it concerns, the
\* site (or frame), a textual and a numeric argument
Op(o, w, k, a, v) == [op |-> o, who |-> w, i |-> k, arg |-> a, n |-> v]

activate(f) == Op("activate", "", f, "", 0)
call(o, w, k) == Op(o, w, k, "", 0)
\* a block obtained from / returned to the active frame of the arena
alloc(b, w, k) == Op("alloc", w, k, b, 0)
free(b, w, k) == Op("free", w, k, b, 0)
set_canonical_form(w, k, t) == Op("canonical_form", w, k, t, 0)

Last(s) == s[Len(s)]

(* -------- collaborators outside src/: what a call leaves in the arena --- *)
\* MovingEnvironment::contract_two_dot / MPS::load_tensor: the two-site
\* tensor of state w at site i now lives in the active frame
two_dot(w, k) == << call("two_dot", w, k), alloc("wfn", w, k) >>

\* MovingEnvironment::eff_ham / multi_eff_ham: the effective Hamiltonian
eff_ham(fuse, k) == << Op("eff_ham", "", k, fuse, 0), alloc("h_eff", "", k) >>

\* split_density_matrix / split_wavefunction_svd / multi_split_density_matrix:
\* truncates to bond_dim and leaves the left, then the right, split tensor
split(how, w, k, bond_dim) ==
    << Op(how, w, k, "", bond_dim), alloc("tensor", w, k),
       alloc("tensor", w, k + 1) >>

\* a density matrix built with the given noise and noise type
density_matrix(how, w, k, noise, noise_type) ==
    << Op(how, w, k, noise_type, noise), alloc("dm", w, k) >>

\* MPS::unload_tensor / MultiMPS::unload_wavefunction release the tensor
unload(how, w, k) == << call(how, w, k), free("tensor", w, k) >>

\* MPS::load_tensor of a single site tensor
load_tensor(w, k) == << call("load_tensor", w, k), alloc("tensor", w, k) >>

(* ---------- the renormalisation bookkeeping of the update functions ----- *)
\* a variant that tags the site the sweep leaves, not the one it moves to
state_info_ops_behind(w, k, fwd, tag) ==
    IF fwd
    THEN << call("extract_state_info", w, k), alloc("info", w, k),
            call("save_left_dims", w, k + 1),
            set_canonical_form(w, k, tag),
            set_canonical_form(w, k + 1, "R") >>
    ELSE << call("extract_state_info", w, k + 1), alloc("info", w, k + 1),
            call("save_right_dims", w, k + 1),
            set_canonical_form(w, k, "L"),
            set_canonical_form(w, k + 1, tag) >>

\* sweep_algorithm.hpp:157-170 (and its copies at 493-510, 721-734, 945-959;
\* with the tag M at 223-236 and 1026-1040)
state_info_ops(w, k, fwd, tag) ==
    IF fwd
    THEN << call("extract_state_info", w, k), alloc("info", w, k),
            call("save_left_dims", w, k + 1),
            set_canonical_form(w, k, "L"),
            set_canonical_form(w, k + 1, tag) >>
    ELSE << call("extract_state_info", w, k + 1), alloc("info", w, k + 1),
            call("save_right_dims", w, k + 1),
            set_canonical_form(w, k, tag),
            set_canonical_form(w, k + 1, "R") >>

info_site(k, fwd) == IF fwd THEN k ELSE k + 1

\* a variant that never releases the extracted state info
save_unload_ops_keep_info(w, k, fwd) ==
    << call("save_tensor", w, k + 1), call("save_tensor", w, k) >>
    \o unload("unload_tensor", w, k + 1) \o unload("unload_tensor", w, k)

\* sweep_algorithm.hpp:171-175: info->deallocate, save both, unload both
save_unload_ops(w, k, fwd) ==
    << free("info", w, info_site(k, fwd)),
       call("save_tensor", w, k + 1), call("save_tensor", w, k) >>
    \o unload("unload_tensor", w, k + 1) \o unload("unload_tensor", w, k)

\* sweep_algorithm.hpp:237-248: the multi-target variant saves the
\* wavefunction on the side the sweep moves to
multi_save_unload_ops(w, k, fwd) ==
    << free("info", w, info_site(k, fwd)) >> \o
    (IF fwd
     THEN << call("save_wavefunction", w, k + 1), call("save_tensor", w, k) >>
          \o unload("unload_wavefunction", w, k + 1)
          \o unload("unload_tensor", w, k)
     ELSE << call("save_tensor", w, k + 1), call("save_wavefunction", w, k) >>
          \o unload("unload_tensor", w, k + 1)
          \o unload("unload_wavefunction", w, k))

\* the result of an update function: its operations and how it ended
\* (ok, or abort when an assert fails)
Ran(o) == [ops |-> o, end |-> "ok"]

\* a variant in which a failed assertion does not end the call
Aborted_ignored(o) == [ops |-> o, end |-> "ok"]

\* the call ends at an assertion that fails
Aborted(o) == [ops |-> o \o << call("assert", "", -1) >>, end |-> "abort"]

(* ------------------------------- DMRG ---------------------------------- *)
\* DMRG::davidson_max_iter
davidson_max_iter == 5000

\* h_eff->eigs(iprint >= 3, davidson_conv_thrd, davidson_max_iter)
eigs(w, i) == Op("eigs", w, i, "", davidson_max_iter)

\* DMRG::update_two_dot, sweep_algorithm.hpp:104-186
DMRG_update_two_dot(i, fwd, bond_dim, noise, c) ==
    LET head == << activate(0) >> \o two_dot("ket", i)
                \o eff_ham("FuseLR", i) \o << eigs("ket", i) >>
        tail(has_dm) ==
            state_info_ops("ket", i, fwd, "C") \o save_unload_ops("ket", i, fwd)
            \o (IF has_dm THEN << free("dm", "ket", i) >> ELSE << >>)
            \o << free("wfn", "ket", i), call("propagate_wfn", "ket", i) >>
    IN  IF c.decomp_type = "DensityMatrix"
        THEN IF c.noise_type = "Perturbative" /\ noise # 0
             THEN Ran(head
                      \o << call("perturbative_noise_two_dot", "ket", i),
                            activate(1), alloc("pket", "ket", i), activate(0),
                            free("h_eff", "", i) >>
                      \o density_matrix("density_matrix_with_perturbative_noise",
                                        "ket", i, noise, c.noise_type)
                      \o << activate(1), free("pket", "ket", i), activate(0) >>
                      \o split("split_density_matrix", "ket", i, bond_dim)
                      \o tail(TRUE))
             ELSE Ran(head \o << free("h_eff", "", i) >>
                      \o density_matrix("density_matrix", "ket", i, noise,
                                        c.noise_type)
                      \o split("split_density_matrix", "ket", i, bond_dim)
                      \o tail(TRUE))
        ELSE \* DecompositionTypes::SVD
             IF c.noise_type \notin {"None", "Wavefunction"}
             THEN Aborted(head)
             ELSE Ran(head \o << free("h_eff", "", i) >>
                      \o (IF c.noise_type = "Wavefunction" /\ noise # 0
                          THEN << Op("wavefunction_add_noise", "ket", i, "", noise) >>
                          ELSE << >>)
                      \o split("split_wavefunction_svd", "ket", i, bond_dim)
                      \o tail(FALSE))

\* DMRG::update_multi_two_dot, sweep_algorithm.hpp:188-262
DMRG_update_multi_two_dot(i, fwd, bond_dim, noise, c) ==
    LET head == << activate(0) >> \o two_dot("ket", i)
                \o eff_ham("FuseLR", i) \o << eigs("ket", i) >>
    IN  IF c.noise_type = "Perturbative" \/ c.decomp_type # "DensityMatrix"
        THEN Aborted(head)
        ELSE Ran(head \o << free("h_eff", "", i) >>
                 \o density_matrix("density_matrix_with_multi_target", "ket", i,
                                   noise, c.noise_type)
                 \o split("multi_split_density_matrix", "ket", i, bond_dim)
                 \o state_info_ops("ket", i, fwd, "M")
                 \o multi_save_unload_ops("ket", i, fwd)
                 \o << free("dm", "ket", i), free("wfn", "ket", i),
                       call("propagate_multi_wfn", "ket", i) >>)

\* the exception of blocking when me->dot is not 2
Thrown == [ops |-> << call("throw runtime_error", "", -1) >>, end |-> "error"]

\* every blocking starts with me->move_to(i)
moved_to(i, r) == [r EXCEPT !.ops = << call("move_to", "", i) >> \o @]

\* a variant that runs the two-site update whatever me->dot is
DMRG_blocking_any_dot(i, fwd, bond_dim, noise, c, dot, cf) ==
    moved_to(i,
        IF cf[i] = "M" \/ cf[i + 1] = "M"
        THEN DMRG_update_multi_two_dot(i, fwd, bond_dim, noise, c)
        ELSE DMRG_update_two_dot(i, fwd, bond_dim, noise, c))

\* DMRG::blocking, sweep_algorithm.hpp:263-276
DMRG_blocking(i, fwd, bond_dim, noise, c, dot, cf) ==
    moved_to(i,
        IF dot = 2
        THEN IF cf[i] = "M" \/ cf[i + 1] = "M"
             THEN DMRG_update_multi_two_dot(i, fwd, bond_dim, noise, c)
             ELSE DMRG_update_two_dot(i, fwd, bond_dim, noise, c)
        ELSE Thrown)

(* ---------------------------- ImaginaryTE ------------------------------ *)
\* a variant that knows the right end of the chain only
at_boundary_right(i, fwd, n) == fwd /\ i + 1 = n - 1

\* the chain-boundary test of sweep_algorithm.hpp:441 and 445
at_boundary(i, fwd, n) == (fwd /\ i + 1 = n - 1) \/ (~fwd /\ i = 0)

\* EffectiveHamiltonian::rk4_apply leaves its stage vectors in frame 1
rk4_apply(i) ==
    << Op("rk4_apply", "ket", i, "-beta", 0), activate(1),
       alloc("k", "", 0), alloc("k", "", 1), alloc("k", "", 2),
       alloc("k", "", 3), activate(0) >>

\* a variant that stays in the scratch frame
free_rk4_in_scratch ==
    << activate(1), free("k", "", 3), free("k", "", 2), free("k", "", 1),
       free("k", "", 0) >>

\* sweep_algorithm.hpp:463-466 and 479-482
free_rk4 ==
    << activate(1), free("k", "", 3), free("k", "", 2), free("k", "", 1),
       free("k", "", 0), activate(0) >>

\* a variant with the parities of the two patterns exchanged
trunc_bdim_swapped(i, bond_dim, trunc_pattern) ==
    IF (trunc_pattern = "TruncAfterOdd" /\ i % 2 = 1)
       \/ (trunc_pattern = "TruncAfterEven" /\ i % 2 = 0)
    THEN -1 ELSE bond_dim

\* sweep_algorithm.hpp:484-489
trunc_bdim(i, bond_dim, trunc_pattern) ==
    IF (trunc_pattern = "TruncAfterOdd" /\ i % 2 = 0)
       \/ (trunc_pattern = "TruncAfterEven" /\ i % 2 = 1)
    THEN -1 ELSE bond_dim

\* a variant that corrects the neighbour in every mode
TE_neighbour_in_any_mode(i, fwd, c, n) ==
    IF fwd /\ i + 1 # n - 1
    THEN << call("move_to", "", i + 1) >> \o load_tensor("ket", i + 1)
         \o eff_ham("FuseR", i + 1)
         \o << Op("expo_apply", "ket", i + 1, "+beta", 0),
               free("h_eff", "", i + 1),
               call("normalize", "ket", i + 1),
               call("save_tensor", "ket", i + 1) >>
         \o unload("unload_tensor", "ket", i + 1)
         \o << call("pdi += pdk", "ket", i + 1) >>
    ELSE IF ~fwd /\ i # 0
    THEN << call("move_to", "", i - 1) >> \o load_tensor("ket", i)
         \o eff_ham("FuseL", i)
         \o << Op("expo_apply", "ket", i, "+beta", 0),
               free("h_eff", "", i),
               call("normalize", "ket", i),
               call("save_tensor", "ket", i) >>
         \o unload("unload_tensor", "ket", i)
         \o << call("pdi += pdk", "ket", i) >>
    ELSE << >>

\* sweep_algorithm.hpp:519-546: in the mode TangentSpace the site the sweep
\* moves to is propagated back by +beta, normalized and saved, and the flop
\* count and time of that propagation are added to those of the step
TE_neighbour(i, fwd, c, n) ==
    IF c.mode = "TangentSpace" /\ fwd /\ i + 1 # n - 1
    THEN << call("move_to", "", i + 1) >> \o load_tensor("ket", i + 1)
         \o eff_ham("FuseR", i + 1)
         \o << Op("expo_apply", "ket", i + 1, "+beta", 0),
               free("h_eff", "", i + 1),
               call("normalize", "ket", i + 1),
               call("save_tensor", "ket", i + 1) >>
         \o unload("unload_tensor", "ket", i + 1)
         \o << call("pdi += pdk", "ket", i + 1) >>
    ELSE IF c.mode = "TangentSpace" /\ ~fwd /\ i # 0
    THEN << call("move_to", "", i - 1) >> \o load_tensor("ket", i)
         \o eff_ham("FuseL", i)
         \o << Op("expo_apply", "ket", i, "+beta", 0),
               free("h_eff", "", i),
               call("normalize", "ket", i),
               call("save_tensor", "ket", i) >>
         \o unload("unload_tensor", "ket", i)
         \o << call("pdi += pdk", "ket", i) >>
    ELSE << >>

\* ImaginaryTE::update_two_dot, sweep_algorithm.hpp:425-552
TE_update_two_dot(i, fwd, advance, bond_dim, noise, c, n) ==
    LET head == << activate(0) >> \o two_dot("ket", i) \o eff_ham("FuseLR", i)
        effective_mode ==
            IF c.mode = "RK4" /\ at_boundary(i, fwd, n)
            THEN "TangentSpace" ELSE c.mode
        with_weights ==
            rk4_apply(i) \o << free("h_eff", "", i) >>
            \o density_matrix("density_matrix_with_weights", "ket", i, noise,
                              c.noise_type)
            \o free_rk4
        propagation ==
            IF ~advance /\ at_boundary(i, fwd, n)
            THEN << alloc("tmp", "", i),
                    Op("memcpy", "tmp", i, "ket", 0),
                    Op("expo_apply", "ket", i, "-beta", 0),
                    Op("memcpy", "ket", i, "tmp", 0),
                    free("tmp", "", i) >> \o with_weights
            ELSE IF effective_mode = "TangentSpace"
            THEN << Op("expo_apply", "ket", i, "-beta", 0),
                    free("h_eff", "", i) >>
                 \o density_matrix("density_matrix", "ket", i, noise,
                                   c.noise_type)
            ELSE with_weights
        renormalize ==
            IF fwd
            THEN IF c.mode = "RK4" /\ (i + 1 # n - 1 \/ ~advance)
                 THEN << call("normalize", "ket", i + 1) >> ELSE << >>
            ELSE IF c.mode = "RK4" /\ (i # 0 \/ ~advance)
                 THEN << call("normalize", "ket", i) >> ELSE << >>
    IN  IF ~advance /\ at_boundary(i, fwd, n) /\ c.mode # "RK4"
        THEN Aborted(head)
        ELSE Ran(head \o propagation
                 \o split("split_density_matrix", "ket", i,
                          trunc_bdim(i, bond_dim, c.trunc_pattern))
                 \o renormalize
                 \o state_info_ops("ket", i, fwd, "C")
                 \o save_unload_ops("ket", i, fwd)
                 \o << free("dm", "ket", i), free("wfn", "ket", i) >>
                 \o TE_neighbour(i, fwd, c, n)
                 \o << call("propagate_wfn", "ket", i) >>)

\* the two-site wavefunction h_eff->ket that split_density_matrix is handed
\* at the end of ops: expo_apply overwrites it with the propagated one,
\* memcpy copies it to and from tmp (452, 455), rk4_apply leaves it alone
RECURSIVE RunKet(_, _)
RunKet(s, ops) ==
    IF ops = << >> THEN s
    ELSE LET o == Head(ops)
             t == CASE o.op = "expo_apply" -> [s EXCEPT !.ket = "expo"]
                    [] o.op = "memcpy" /\ o.who = "tmp" ->
                           [s EXCEPT !.tmp = s.ket]
                    [] o.op = "memcpy" /\ o.who = "ket" ->
                           [s EXCEPT !.ket = s.tmp]
                    [] o.op = "rk4_apply" -> [s EXCEPT !.stages = TRUE]
                    [] OTHER -> s
         IN  IF o.op = "split_density_matrix" THEN s
             ELSE RunKet(t, Tail(ops))

\* ImaginaryTE::blocking, sweep_algorithm.hpp:553-560
TE_blocking(i, fwd, advance, bond_dim, noise, c, dot, n) ==
    moved_to(i,
        IF dot = 2
        THEN TE_update_two_dot(i, fwd, advance, bond_dim, noise, c, n)
        ELSE Thrown)

\* ImaginaryTE::normalize, sweep_algorithm.hpp:598-605
TE_normalize(cf, n) ==
    IF \A k \in 0..(n - 1) : cf[k] # "C"
    THEN Aborted(<< >>)
    ELSE LET center == CHOOSE k \in 0..(n - 1) :
                           cf[k] = "C" /\ \A j \in 0..(k - 1) : cf[j] # "C"
         IN  Ran(load_tensor("ket", center)
                 \o << call("normalize", "ket", center),
                       call("save_tensor", "ket", center) >>
                 \o unload("unload_tensor", "ket", center))

(* ------------------------------ Compress ------------------------------- *)
\* the body of the loop over {bra, ket}, sweep_algorithm.hpp:708-744
Compress_split_ops(w, i, fwd, bond_dim, noise, noise_type) ==
    density_matrix("density_matrix", w, i, noise, noise_type)
    \o split("split_density_matrix", w, i, bond_dim)
    \o (IF w = "bra" THEN << call("bra_error = error", w, i) >> ELSE << >>)
    \o state_info_ops(w, i, fwd, "C")
    \o save_unload_ops(w, i, fwd)
    \o << free("dm", w, i), call("propagate_wfn", w, i) >>

\* a variant that gives the ket the noise and the budget of the bra
Compress_update_two_dot_alike(i, fwd, bra_bond_dim, ket_bond_dim, noise, c, same) ==
    IF same
    THEN Aborted(<< >>)
    ELSE Ran(<< activate(0) >> \o two_dot("bra", i) \o two_dot("ket", i)
             \o eff_ham("FuseLR", i)
             \o << call("multiply", "", i), free("h_eff", "", i) >>
             \o Compress_split_ops("bra", i, fwd, bra_bond_dim, noise,
                                   c.noise_type)
             \o Compress_split_ops("ket", i, fwd, bra_bond_dim, noise,
                                   c.noise_type)
             \o << free("wfn", "ket", i), free("wfn", "bra", i) >>)

\* Compress::update_two_dot, sweep_algorithm.hpp:689-750
Compress_update_two_dot(i, fwd, bra_bond_dim, ket_bond_dim, noise, c, same) ==
    IF same
    THEN Aborted(<< >>)
    ELSE Ran(<< activate(0) >> \o two_dot("bra", i) \o two_dot("ket", i)
             \o eff_ham("FuseLR", i)
             \o << call("multiply", "", i), free("h_eff", "", i) >>
             \o Compress_split_ops("bra", i, fwd, bra_bond_dim, noise,
                                   c.noise_type)
             \o Compress_split_ops("ket", i, fwd, ket_bond_dim, 0, "None")
             \o << free("wfn", "ket", i), free("wfn", "bra", i) >>)

\* Compress::blocking, sweep_algorithm.hpp:751-759
Compress_blocking(i, fwd, bra_bond_dim, ket_bond_dim, noise, c, dot, same) ==
    moved_to(i,
        IF dot = 2
        THEN Compress_update_two_dot(i, fwd, bra_bond_dim, ket_bond_dim,
                                     noise, c, same)
        ELSE Thrown)

(* ------------------------------- Expect -------------------------------- *)
\* the states an Expect update works on: one when bra and ket are the same
\* object (sweep_algorithm.hpp:909-911), and the order of release (924-928)
Expect_mpss(same) == IF same THEN << "ket" >> ELSE << "bra", "ket" >>

\* the state object that me->bra names
BraOf(same) == IF same THEN "ket" ELSE "bra"

\* a variant that releases the wavefunction of me->ket and of me->bra
\* whether or not they are one object
Expect_old_wfns_both(same) == << "ket", BraOf(same) >>

Expect_old_wfns(same) == IF same THEN << "ket" >> ELSE << "ket", "bra" >>

RECURSIVE Concat(_)
Concat(ss) == IF ss = << >> THEN << >> ELSE Head(ss) \o Concat(Tail(ss))

\* the body of the propagate loop, sweep_algorithm.hpp:931-969 (1010-1057)
Expect_split_ops(w, i, fwd, bond_dim, tag) ==
    IF tag = "C"
    THEN density_matrix("density_matrix", w, i, 0, "None")
         \o split("split_density_matrix", w, i, bond_dim)
         \o state_info_ops(w, i, fwd, "C")
         \o save_unload_ops(w, i, fwd)
         \o << free("dm", w, i), call("propagate_wfn", w, i) >>
    ELSE density_matrix("density_matrix_with_multi_target", w, i, 0, "None")
         \o split("multi_split_density_matrix", w, i, bond_dim)
         \o state_info_ops(w, i, fwd, "M")
         \o multi_save_unload_ops(w, i, fwd)
         \o << free("dm", w, i), call("propagate_multi_wfn", w, i) >>

\* a variant that renormalizes whether asked to or not
Expect_propagates_always(propagate) == TRUE

\* if (propagate), sweep_algorithm.hpp:931 (1010)
Expect_propagates(propagate) == propagate

\* Expect::update_two_dot (906-977) and update_multi_two_dot (978-1074)
Expect_update(i, fwd, propagate, bra_bond_dim, ket_bond_dim, same, tag) ==
    LET mpss == Expect_mpss(same)
        olds == Expect_old_wfns(same)
    IN  Ran(<< activate(0) >>
            \o Concat([k \in 1..Len(mpss) |-> two_dot(mpss[k], i)])
            \o eff_ham("FuseLR", i)
            \o << call("expect", "", i), free("h_eff", "", i) >>
            \o (IF Expect_propagates(propagate)
                THEN Concat([k \in 1..Len(mpss) |->
                        Expect_split_ops(mpss[k], i, fwd,
                            IF mpss[k] = BraOf(same) THEN bra_bond_dim
                            ELSE ket_bond_dim, tag)])
                ELSE << >>)
            \o [k \in 1..Len(olds) |-> free("wfn", olds[k], i)])

\* Expect::blocking, sweep_algorithm.hpp:1075-1088
Expect_blocking(i, fwd, propagate, bra_bond_dim, ket_bond_dim, dot, same, cf) ==
    moved_to(i,
        IF dot = 2
        THEN IF cf[i] = "M" \/ cf[i + 1] = "M"
             THEN Expect_update(i, fwd, propagate, bra_bond_dim, ket_bond_dim,
                                same, "M")
             ELSE Expect_update(i, fwd, propagate, bra_bond_dim, ket_bond_dim,
                                same, "C")
        ELSE Thrown)

(* --------------------- running an op list on the state ----------------- *)
\* the block an alloc/free names
Blk(o) == << o.arg, o.who, o.i >>

\* the stack arena (StackAllocator): a block is taken from the top of the
\* active frame and must be returned while it is the top of that frame
ArenaStep(a, o) ==
    CASE o.op = "activate" -> [a EXCEPT !.active = o.i]
      [] o.op = "alloc" ->
            [a EXCEPT !.stack[a.active + 1] = Append(@, Blk(o))]
      [] o.op = "free" ->
            LET st == a.stack[a.active + 1]
            IN  IF st # << >> /\ st[Len(st)] = Blk(o)
                THEN [a EXCEPT !.stack[a.active + 1] = SubSeq(st, 1, Len(st) - 1)]
                ELSE [a EXCEPT !.ok = FALSE]
      [] OTHER -> a

\* the ops of a step applied in order, first to last; the list is split in
\* halves, and the state after the first half is a value before the second
\* half runs, to keep the evaluation shallow
RECURSIVE RunArena(_, _)
RunArena(s, ops) ==
    IF ops = << >> THEN s
    ELSE IF Len(ops) = 1 THEN ArenaStep(s, ops[1])
    ELSE LET h == Len(ops) \div 2
         IN  CHOOSE r \in {RunArena(m, SubSeq(ops, h + 1, Len(ops))) :
                               m \in {RunArena(s, SubSeq(ops, 1, h))}} : TRUE

\* mps->canonical_form[i] = tag
CanonStep(cf, o) ==
    IF o.op = "canonical_form" THEN [cf EXCEPT ![o.who][o.i] = o.arg] ELSE cf

RECURSIVE RunCanon(_, _)
RunCanon(s, ops) ==
    IF ops = << >> THEN s
    ELSE IF Len(ops) = 1 THEN CanonStep(s, ops[1])
    ELSE LET h == Len(ops) \div 2
         IN  CHOOSE r \in {RunCanon(m, SubSeq(ops, h + 1, Len(ops))) :
                               m \in {RunCanon(s, SubSeq(ops, 1, h))}} : TRUE

\* MovingEnvironment::move_to(i) leaves me->center = i
CenterStep(c, o) == IF o.op = "move_to" THEN o.i ELSE c

RECURSIVE RunCenter(_, _)
RunCenter(s, ops) ==
    IF ops = << >> THEN s
    ELSE IF Len(ops) = 1 THEN CenterStep(s, ops[1])
    ELSE LET h == Len(ops) \div 2
         IN  CHOOSE r \in {RunCenter(m, SubSeq(ops, h + 1, Len(ops))) :
                               m \in {RunCenter(s, SubSeq(ops, 1, h))}} : TRUE

(* ------------------------------ schedules ------------------------------ *)
BondVals == {1, 2}
NoiseVals == {0, 1}
\* what the numeric kernel may return: equal values or values a tolerance
\* of 1 tells apart
EnergyVals == {0, 1}

Schedules(vals, maxlen) == UNION {[1..k -> vals] : k \in 1..maxlen}

\* vector::resize(n, v.back()) when v.size() < n (sweep_algorithm.hpp:322-325)
Resize(v, n) ==
    IF Len(v) < n THEN [k \in 1..n |-> IF k <= Len(v) THEN v[k] ELSE Last(v)]
    ELSE v

Abs(x) == IF x < 0 THEN -x ELSE x

\* a variant whose ranges start at the end of the chain, not at the center
sweep_range_whole(center, fwd, n, dot) ==
    IF fwd
    THEN [k \in 1..(n - dot + 1) |-> k - 1]
    ELSE [k \in 1..(n - dot + 1) |-> n - dot + 1 - k]

\* the positions a sweep visits, sweep_algorithm.hpp:283-289 (565-572,
\* 764-770, 1091-1097)
sweep_range_of(center, fwd, n, dot) ==
    IF fwd
    THEN [k \in 1..(IF n - dot + 1 > center THEN n - dot + 1 - center ELSE 0)
             |-> center + k - 1]
    ELSE [k \in 1..(IF center >= 0 THEN center + 1 ELSE 0) |-> center - k + 1]

(* ------------------------------- Init ---------------------------------- *)
\* MPS(n_sites, center, dot = 2): L below the center, the two center sites,
\* R above them
InitialForm(n, c, tag) ==
    [k \in 0..(n - 1) |-> IF k < c THEN "L" ELSE IF k <= c + 1 THEN tag ELSE "R"]

DefaultConf ==
    [decomp_type |-> "DensityMatrix", noise_type |-> "DensityMatrix",
     mode |-> "TangentSpace", n_sub_sweeps |-> 1, trunc_pattern |-> "None"]

\* the members a caller may set on a DMRG object (sweep_algorithm.hpp:55-57)
DMRGConfs ==
    {[DefaultConf EXCEPT !.decomp_type = d, !.noise_type = t] :
        d \in {"DensityMatrix", "SVD"},
        t \in {"None", "Wavefunction", "DensityMatrix", "Perturbative"}}

\* the members a caller may set on an ImaginaryTE object (392-397)
TEConfs ==
    {[DefaultConf EXCEPT !.mode = m, !.n_sub_sweeps = s, !.trunc_pattern = p] :
        m \in {"TangentSpace", "RK4"}, s \in 1..MaxSub,
        p \in {"None", "TruncAfterOdd", "TruncAfterEven"}}

NoHist ==
    [calls |-> 0, fwd_arg |-> FALSE, last |-> << >>,
     step |-> [i |-> -1, fwd |-> FALSE, dot |-> 2, advance |-> FALSE,
               propagate |-> FALSE, end |-> "none", ndav |-> 0],
     visited |-> << >>, start_center |-> -1, dirs |-> << >>, advs |-> << >>,
     thrds |-> << >>, ret |-> [out |-> << >>, ndav |-> -1],
     n_normalize |-> 0, swept |-> << >>]

InitWith(a, n, c, same, m, cnf, bd, kbd, ns, ar) ==
    /\ alg = a
    /\ n_sites = n
    /\ me_center = c
    /\ me_dot = 2
    /\ bra_is_ket = same
    /\ multi = m
    /\ canonical_form =
           [w \in {"bra", "ket"} |-> InitialForm(n, c, IF m THEN "M" ELSE "C")]
    /\ conf = cnf
    /\ bond_dims = bd
    /\ ket_bond_dims = kbd
    /\ noises = ns
    /\ davidson_conv_thrds = ar.thrds
    /\ this_forward = FALSE
    /\ energies = << >>
    /\ normsqs = << >>
    /\ norms = << >>
    /\ expectations = [k \in 0..(n - 2) |-> << >>]
    /\ pc = "idle"
    /\ args = ar
    /\ iw = 0
    /\ isw = 0
    /\ forward = FALSE
    /\ sweep_range = << >>
    /\ sweep_res = << >>
    /\ arena = [stack |-> << << >>, << >> >>, active |-> 0, ok |-> TRUE]
    /\ hist = NoHist

\* what the caller does with the object: the arguments of its solve calls
\* (n_sweeps, tol, the directions it may pass), how many calls it makes and
\* whether it makes the two-site to one-site transition between them
Caller(nsw, tol, fwds, calls, transition) ==
    [n_sweeps |-> nsw, tol |-> tol, retol |-> tol, thrds |-> << >>,
     propagate |-> TRUE, fwds |-> fwds, calls |-> calls,
     transition |-> transition]

\* chains of every length and center, one-entry schedules, several calls
\* (several roots on all but the longest chain); the longer the chain, the
\* fewer sweeps per call
InitChain ==
    \E n \in 2..MaxSites, nsw \in 1..MaxSweeps :
    \E c \in 0..(n - 2) :
    LET ar == Caller(nsw, 1, BOOLEAN, MaxCalls, TRUE)
    IN  /\ n + nsw <= MaxSites + 1
        /\ \/ \E m \in BOOLEAN :
               /\ m => n < MaxSites
               /\ InitWith("DMRG", n, c, TRUE, m, DefaultConf, << 2 >>,
                           << 2 >>, << 0 >>, ar)
           \/ \E cnf \in TEConfs :
               /\ cnf.trunc_pattern = "None"
               /\ InitWith("TE", n, c, TRUE, FALSE, cnf, << 2 >>, << 2 >>,
                           << 0 >>, ar)
           \/ \E same \in BOOLEAN :
               InitWith("Compress", n, c, same, FALSE, DefaultConf, << 2 >>,
                        << 1 >>, << 0 >>, ar)
           \/ \E same \in BOOLEAN, m \in BOOLEAN :
               /\ nsw = 1
               /\ InitWith("Expect", n, c, same, m, DefaultConf, << 2 >>,
                           << 1 >>, << 0 >>, ar)

\* every configuration of the update functions, one sweep of a 3-site chain
InitConf ==
    \E c \in 0..1 :
    LET ar == Caller(1, 1, BOOLEAN, 1, FALSE)
    IN  \/ \E m \in BOOLEAN, cnf \in DMRGConfs, ns \in NoiseVals :
               InitWith("DMRG", 3, c, TRUE, m, cnf, << 2 >>, << 2 >>, << ns >>,
                        ar)
        \/ \E cnf \in TEConfs, ns \in NoiseVals :
               InitWith("TE", 3, c, TRUE, FALSE, cnf, << 2 >>, << 2 >>,
                        << ns >>, ar)
        \/ \E t \in {"None", "DensityMatrix"}, ns \in NoiseVals :
               InitWith("Compress", 3, c, FALSE, FALSE,
                        [DefaultConf EXCEPT !.noise_type = t], << 2 >>, << 1 >>,
                        << ns >>, ar)

\* the shortest chain, with every schedule of one kind beside a one-entry
\* schedule of the other (for Compress, every schedule of one state beside a
\* one-entry schedule of the other)
InitSched ==
    \E nsw \in 1..MaxSweeps, tol \in {0, 1} :
    LET ar == Caller(nsw, tol, {TRUE}, 1, FALSE)
    IN  \/ \E bd \in Schedules(BondVals, MaxSched),
              ns \in Schedules(NoiseVals, MaxSched - 2) :
               /\ Len(bd) = 1 \/ Len(ns) = 1
               /\ InitWith("DMRG", 2, 0, TRUE, FALSE, DefaultConf, bd, << 2 >>,
                           ns, ar)
        \/ \E bd \in Schedules(BondVals, MaxSched - 2),
              kbd \in Schedules(BondVals, MaxSched - 1),
              ns \in Schedules(NoiseVals, MaxSched - 3) :
               /\ bd = << 1 >> \/ kbd = << 1 >>
               /\ InitWith("Compress", 2, 0, FALSE, FALSE, DefaultConf, bd, kbd,
                           ns, ar)

\* the shortest chain driven by two calls of DMRG::solve that may differ in
\* tol, with every noise schedule and with or without a supplied threshold
InitThr ==
    \E nsw \in 1..(MaxSweeps - 1), tol \in {0, 1}, retol \in {1, 2} :
    \E ns \in Schedules(NoiseVals, MaxSched - 2),
       th \in {<< >>, << [mant |-> 7, exp10 |-> -1] >>} :
        InitWith("DMRG", 2, 0, TRUE, FALSE, DefaultConf, << 2 >>, << 2 >>, ns,
                 [Caller(nsw, tol, {TRUE}, MaxCalls, FALSE)
                     EXCEPT !.retol = retol, !.thrds = th])

\* no distributed call is running
NoCall ==
    /\ callee = "none"
    /\ expr = << >>
    /\ all_reduce = FALSE
    /\ cmats = << >>
    /\ vmats = << >>
    /\ ppc = << >>
    /\ comm = 0
    /\ ptf_hist = [calls |-> 0, entry |-> << >>, mode |-> "None",
                   queued |-> << >>, reduce_sums |-> 0]

\* no rotation is running
NoRot ==
    /\ rot = [dir |-> "none", fn |-> "none", mode |-> "None", mat |-> << >>,
              owner |-> << >>, repeat |-> << >>, same_n |-> << >>,
              a_factor |-> 0, c_of |-> "none", pre |-> 0]
    /\ rpc = << >>
    /\ c_ops = << >>
    /\ c_mat = << >>
    /\ sent = << >>
    /\ nrot = << >>

\* no numerical transform is running
NoTransform ==
    nt = [at |-> "none", mode |-> "None", n_ops |-> 0, exprs |-> << >>,
          zero |-> << >>, is_local |-> << >>, i |-> 0, queued |-> << >>,
          acc |-> << >>, reduced |-> << >>]

\* no density matrix is being truncated
NoTrunc == tr = [weights |-> << >>, runs |-> << >>]

\* no weighted expectation is being formed
NoExpect ==
    ex = [at |-> "none", nroots |-> 0, thermal |-> FALSE, beta |-> 0,
          energies |-> << >>, multiplicities |-> << >>,
          partition_weights |-> << >>, values |-> << >>, reported |-> << >>]

Init ==
    /\ InitChain \/ InitConf \/ InitSched \/ InitThr
    /\ NoCall /\ NoRot /\ NoTransform /\ NoTrunc /\ NoExpect

(* ------------------------------ actions -------------------------------- *)
CanCall == pc \in {"idle", "done"} /\ hist.calls < args.calls

Called(fwd) == [NoHist EXCEPT !.calls = hist.calls + 1, !.fwd_arg = fwd]

\* the tol argument of the caller's k-th call of solve
TolOfCall(k) == IF k <= 1 THEN args.tol ELSE args.retol

\* a double: mant * 10^exp10
Dbl(x) == [mant |-> x, exp10 |-> 0]

\* x * 0.1
TimesTenth(x) == [x EXCEPT !.exp10 = @ - 1]

\* the threshold pushed for one sweep index, sweep_algorithm.hpp:329-330
derived_thrd(noise, tol) ==
    TimesTenth(IF noise = 0
               THEN (IF tol = 0 THEN [mant |-> 1, exp10 |-> -9] ELSE Dbl(tol))
               ELSE Dbl(noise))

\* the loop that fills davidson_conv_thrds, sweep_algorithm.hpp:326-330
fill_thrds(thrds, ns, n_sweeps, tol) ==
    IF Len(thrds) < n_sweeps
    THEN [k \in 1..Len(ns) |-> IF k <= Len(thrds) THEN thrds[k]
                                ELSE derived_thrd(ns[k], tol)]
    ELSE thrds

\* DMRG::solve up to its loop, sweep_algorithm.hpp:321-334
DMRG_solve ==
    /\ alg = "DMRG" /\ CanCall
    /\ \E fwd \in args.fwds :
        /\ forward' = fwd
        /\ hist' = Called(fwd)
    /\ bond_dims' = Resize(bond_dims, args.n_sweeps)
    /\ noises' = Resize(noises, args.n_sweeps)
    /\ davidson_conv_thrds' =
           fill_thrds(davidson_conv_thrds, Resize(noises, args.n_sweeps),
                      args.n_sweeps, TolOfCall(hist.calls + 1))
    /\ energies' = << >>
    /\ iw' = 0 /\ isw' = 0 /\ pc' = "loop"
    /\ UNCHANGED << eng_vars,
                    alg, n_sites, me_center, me_dot, bra_is_ket, multi,
                    canonical_form, conf, ket_bond_dims, this_forward, normsqs,
                    norms, expectations, args, sweep_range, sweep_res, arena >>

\* ImaginaryTE::solve up to its loop, sweep_algorithm.hpp:606-615
TE_solve ==
    /\ alg = "TE" /\ CanCall
    /\ \E fwd \in args.fwds :
        /\ forward' = fwd
        /\ hist' = Called(fwd)
    /\ bond_dims' = Resize(bond_dims, args.n_sweeps)
    /\ noises' = Resize(noises, args.n_sweeps)
    /\ energies' = << >>
    /\ normsqs' = << >>
    /\ iw' = 0 /\ isw' = 0 /\ pc' = "loop"
    /\ UNCHANGED << eng_vars, davidson_conv_thrds,
                    alg, n_sites, me_center, me_dot, bra_is_ket, multi,
                    canonical_form, conf, ket_bond_dims, this_forward, norms,
                    expectations, args, sweep_range, sweep_res, arena >>

\* Compress::solve up to its loop, sweep_algorithm.hpp:795-804
Compress_solve ==
    /\ alg = "Compress" /\ CanCall
    /\ \E fwd \in args.fwds :
        /\ forward' = fwd
        /\ hist' = Called(fwd)
    /\ bond_dims' = Resize(bond_dims, args.n_sweeps)
    /\ ket_bond_dims' = Resize(ket_bond_dims, args.n_sweeps)
    /\ noises' = Resize(noises, args.n_sweeps)
    /\ norms' = << >>
    /\ iw' = 0 /\ isw' = 0 /\ pc' = "loop"
    /\ UNCHANGED << eng_vars, davidson_conv_thrds,
                    alg, n_sites, me_center, me_dot, bra_is_ket, multi,
                    canonical_form, conf, this_forward, energies, normsqs,
                    expectations, args, sweep_range, sweep_res, arena >>

\* the caller's two-site to one-site transition (me->dot = 1) between calls
SetDot ==
    /\ pc \in {"idle", "done"} /\ me_dot = 2 /\ args.transition
    /\ me_dot' = 1
    /\ UNCHANGED << eng_vars, davidson_conv_thrds,
                    alg, n_sites, me_center, bra_is_ket, multi, canonical_form,
                    conf, bond_dims, ket_bond_dims, noises, this_forward,
                    energies, normsqs, norms, expectations, pc, args, iw, isw,
                    forward, sweep_range, sweep_res, arena, hist >>

\* a variant that advances on the first sub-sweep of a time step
Advance_first == alg # "TE" \/ isw = 0

\* the advance argument of the running sweep (sweep_algorithm.hpp:630)
Advance == alg # "TE" \/ isw = conf.n_sub_sweeps - 1

\* the head of sweep: me->prepare() and the sweep range (283-289)
sweep ==
    /\ pc = "loop"
    /\ sweep_range' = sweep_range_of(me_center, forward, n_sites, me_dot)
    /\ sweep_res' = << >>
    /\ pc' = "sweep"
    /\ hist' = [hist EXCEPT !.visited = << >>, !.start_center = me_center,
                            !.dirs = Append(@, forward),
                            !.advs = Append(@, Advance),
                            !.thrds = IF alg = "DMRG"
                                      THEN Append(@, davidson_conv_thrds[iw + 1])
                                      ELSE @]
    /\ UNCHANGED << eng_vars, davidson_conv_thrds,
                    alg, n_sites, me_center, me_dot, bra_is_ket, multi,
                    canonical_form, conf, bond_dims, ket_bond_dims, noises,
                    this_forward, energies, normsqs, norms, expectations, args,
                    iw, isw, forward, arena >>

\* what blocking(i, ...) does for the running algorithm
BlockingOf(i, fwd, propagate) ==
    CASE alg = "DMRG" ->
            DMRG_blocking(i, fwd, bond_dims[iw + 1], noises[iw + 1], conf,
                          me_dot, canonical_form["ket"])
      [] alg = "TE" ->
            TE_blocking(i, fwd, Advance, bond_dims[iw + 1], noises[iw + 1],
                        conf, me_dot, n_sites)
      [] alg = "Compress" ->
            Compress_blocking(i, fwd, bond_dims[iw + 1], ket_bond_dims[iw + 1],
                              noises[iw + 1], conf, me_dot, bra_is_ket)
      [] alg = "Expect" ->
            Expect_blocking(i, fwd, propagate, bond_dims[1], ket_bond_dims[1],
                            me_dot, bra_is_ket, canonical_form["ket"])

\* what the numeric kernel hands back for one position
Outcomes ==
    CASE alg = "DMRG" -> [1..(IF multi THEN 2 ELSE 1) -> EnergyVals]
      [] alg = "TE" -> {[energy |-> e, normsq |-> (e + 1) * (e + 1)] :
                           e \in EnergyVals}
      [] alg = "Compress" -> EnergyVals
      [] alg = "Expect" -> {<< >>} \cup {<< e >> : e \in EnergyVals}

StepOf(i, fwd, propagate, r) ==
    [i |-> i, fwd |-> fwd, dot |-> me_dot, advance |-> Advance,
     propagate |-> propagate, end |-> r.end, ndav |-> 0]

\* the iteration counts the eigensolver may return: few, or its whole budget
\* (no eigensolver runs in the other algorithms)
NDavs(ops) ==
    LET budget == {ops[k].n : k \in {j \in DOMAIN ops : ops[j].op = "eigs"}}
    IN  IF budget = {} THEN {0} ELSE {1} \cup budget

\* a variant that drops the iteration count
Iteration_without_ndav(out, nd) == [out |-> out, ndav |-> 0]

\* the Iteration that update_two_dot returns (sweep_algorithm.hpp:184-185,
\* 260-261): the estimate and the iteration count of the eigensolver
Iteration(out, nd) == [out |-> out, ndav |-> nd]

\* a variant that never polls
poll_never(i) == << >>

\* check_signal_()() at the head of the loop body of sweep
\* (sweep_algorithm.hpp:293, 576, 774, 1101)
poll(i) == << call("check_signal", "", i) >>

\* one pass of the loop of sweep: check_signal, then blocking(i)
blocking ==
    /\ pc = "sweep" /\ sweep_range # << >>
    /\ LET i == Head(sweep_range)
           r == BlockingOf(i, forward, TRUE)
           ops == poll(i) \o r.ops
           h == [hist EXCEPT !.last = ops,
                             !.step = StepOf(i, forward, TRUE, r),
                             !.visited = Append(@, i)]
       IN  /\ arena' = RunArena(arena, ops)
           /\ canonical_form' = RunCanon(canonical_form, ops)
           /\ me_center' = RunCenter(me_center, ops)
           /\ IF r.end = "ok"
              THEN \E out \in Outcomes, nd \in NDavs(ops) :
                       /\ hist' = [h EXCEPT !.step.ndav = nd,
                                            !.ret = Iteration(out, nd)]
                       /\ sweep_res' = Append(sweep_res, out)
                       /\ sweep_range' = Tail(sweep_range)
                       /\ expectations' =
                              IF alg = "Expect"
                              THEN [expectations EXCEPT ![i] = out]
                              ELSE expectations
                       /\ pc' = "sweep"
              ELSE /\ pc' = r.end
                   /\ hist' = [h EXCEPT !.ret = NoHist.ret]
                   /\ UNCHANGED << sweep_res, sweep_range, expectations >>
    /\ UNCHANGED << eng_vars, davidson_conv_thrds,
                    alg, n_sites, me_dot, bra_is_ket, multi, conf, bond_dims,
                    ket_bond_dims, noises, this_forward, energies, normsqs,
                    norms, args, iw, isw, forward >>

\* a variant that leaves the direction as it was
flip_kept(fwd) == fwd

\* forward = !forward at the end of the loop body of solve
\* (sweep_algorithm.hpp:354, 642, 821, 1142)
flip(fwd) == ~fwd

\* std::min_element over the first root (sweep_algorithm.hpp:313-318)
MinIdx(es) ==
    CHOOSE k \in 1..Len(es) :
        /\ \A j \in 1..Len(es) : es[k][1] <= es[j][1]
        /\ \A j \in 1..(k - 1) : es[j][1] > es[k][1]

\* the stop rule of DMRG::solve, sweep_algorithm.hpp:349-353
DMRG_converged(es, tol, ns, bd, w) ==
    /\ Len(es) >= 2
    /\ tol > 0
    /\ Abs(Last(es[Len(es)]) - Last(es[Len(es) - 1])) < tol
    /\ ns[w + 1] = Last(ns)
    /\ bd[w + 1] = Last(bd)

\* the end of DMRG::sweep and the rest of the loop body of DMRG::solve
\* (sweep_algorithm.hpp:313-319, 347-376)
DMRG_sweep_done ==
    /\ alg = "DMRG" /\ pc = "sweep" /\ sweep_range = << >>
    /\ LET res == sweep_res[MinIdx(sweep_res)]
           es == Append(energies, res)
           converged == DMRG_converged(es, TolOfCall(hist.calls), noises,
                                       bond_dims, iw)
       IN  /\ energies' = es
           /\ forward' = flip(forward)
           \* the Iteration of the last position ends with the sweep
           /\ hist' = [hist EXCEPT !.swept = res, !.ret = NoHist.ret,
                                   !.step.ndav = 0]
           /\ IF converged \/ iw + 1 >= args.n_sweeps
              THEN /\ this_forward' = flip(forward)
                   /\ pc' = "done"
                   /\ iw' = iw
              ELSE /\ iw' = iw + 1
                   /\ pc' = "loop"
                   /\ UNCHANGED this_forward
    /\ UNCHANGED << eng_vars, davidson_conv_thrds,
                    alg, n_sites, me_center, me_dot, bra_is_ket, multi,
                    canonical_form, conf, bond_dims, ket_bond_dims, noises,
                    normsqs, norms, expectations, args, isw, sweep_range,
                    sweep_res, arena >>

\* a variant that does not wait for a second norm
Compress_converged_at_once(nm, tol, ns, bd, w) ==
    /\ tol > 0
    /\ ns[w + 1] = Last(ns)
    /\ bd[w + 1] = Last(bd)

\* the stop rule of Compress::solve, sweep_algorithm.hpp:816-820
Compress_converged(nm, tol, ns, bd, w) ==
    /\ Len(nm) >= 2
    /\ tol > 0
    /\ Abs(nm[Len(nm)] - nm[Len(nm) - 1]) < tol
    /\ ns[w + 1] = Last(ns)
    /\ bd[w + 1] = Last(bd)

\* the end of Compress::sweep and the rest of the loop body of
\* Compress::solve (sweep_algorithm.hpp:793, 815-834)
Compress_sweep_done ==
    /\ alg = "Compress" /\ pc = "sweep" /\ sweep_range = << >>
    /\ LET norm == Last(sweep_res)
           nm == Append(norms, norm)
           converged == Compress_converged(nm, args.tol, noises, bond_dims, iw)
       IN  /\ norms' = nm
           /\ forward' = flip(forward)
           /\ hist' = [hist EXCEPT !.swept = norm]
           /\ IF converged \/ iw + 1 >= args.n_sweeps
              THEN /\ this_forward' = flip(forward)
                   /\ pc' = "done"
                   /\ iw' = iw
              ELSE /\ iw' = iw + 1
                   /\ pc' = "loop"
                   /\ UNCHANGED this_forward
    /\ UNCHANGED << eng_vars, davidson_conv_thrds,
                    alg, n_sites, me_center, me_dot, bra_is_ket, multi,
                    canonical_form, conf, bond_dims, ket_bond_dims, noises,
                    energies, normsqs, expectations, args, isw, sweep_range,
                    sweep_res, arena >>

\* the end of ImaginaryTE::sweep and the rest of the loop bodies of
\* ImaginaryTE::solve (sweep_algorithm.hpp:596, 632-652)
TE_sweep_done ==
    /\ alg = "TE" /\ pc = "sweep" /\ sweep_range = << >>
    /\ LET r == Last(sweep_res)
           last_sub == isw = conf.n_sub_sweeps - 1
           nz == TE_normalize(canonical_form["ket"], n_sites)
       IN  /\ forward' = flip(forward)
           /\ energies' = IF last_sub THEN Append(energies, r.energy)
                          ELSE energies
           /\ normsqs' = IF last_sub THEN Append(normsqs, r.normsq)
                         ELSE normsqs
           /\ IF ~last_sub
              THEN /\ isw' = isw + 1
                   /\ pc' = "loop"
                   /\ hist' = [hist EXCEPT !.swept = r]
                   /\ UNCHANGED << iw, arena, this_forward >>
              ELSE /\ arena' = RunArena(arena, nz.ops)
                   /\ hist' = [hist EXCEPT !.swept = r,
                                           !.n_normalize = @ + 1]
                   /\ isw' = 0
                   /\ IF nz.end # "ok"
                      THEN /\ pc' = nz.end
                           /\ UNCHANGED << iw, this_forward >>
                      ELSE IF iw + 1 >= args.n_sweeps
                      THEN /\ this_forward' = flip(forward)
                           /\ pc' = "done"
                           /\ iw' = iw
                      ELSE /\ iw' = iw + 1
                           /\ pc' = "loop"
                           /\ UNCHANGED this_forward
    /\ UNCHANGED << eng_vars, davidson_conv_thrds,
                    alg, n_sites, me_center, me_dot, bra_is_ket, multi,
                    canonical_form, conf, bond_dims, ket_bond_dims, noises,
                    norms, expectations, args, sweep_range, sweep_res >>

\* a variant that keeps the table of an earlier call
clear_nothing(t) == t

\* for (auto &x : expectations) x.clear(), sweep_algorithm.hpp:1124-1125
clear(t) == [k \in DOMAIN t |-> << >>]

\* Expect::solve, sweep_algorithm.hpp:1121-1151: with propagate it runs one
\* sweep; without, one blocking at me->center
Expect_solve ==
    /\ alg = "Expect" /\ CanCall
    /\ expectations' = clear(expectations)
    /\ \E fwd \in args.fwds, propagate \in BOOLEAN :
        /\ forward' = fwd
        /\ args' = [args EXCEPT !.propagate = propagate]
        /\ IF propagate
           THEN /\ pc' = "loop"
                /\ hist' = Called(fwd)
                /\ UNCHANGED << arena, canonical_form, me_center >>
           ELSE LET r == BlockingOf(me_center, fwd, FALSE)
                IN  /\ arena' = RunArena(arena, r.ops)
                    /\ canonical_form' = RunCanon(canonical_form, r.ops)
                    /\ me_center' = RunCenter(me_center, r.ops)
                    /\ \E out \in Outcomes :
                        /\ hist' = [Called(fwd) EXCEPT
                                       !.last = r.ops,
                                       !.step = StepOf(me_center, fwd, FALSE, r),
                                       !.swept = out]
                        /\ pc' = IF r.end # "ok" THEN r.end
                                 ELSE IF out = << >> THEN "abort" ELSE "done"
    /\ iw' = 0 /\ isw' = 0
    /\ UNCHANGED << eng_vars, davidson_conv_thrds,
                    alg, n_sites, me_dot, bra_is_ket, multi, conf, bond_dims,
                    ket_bond_dims, noises, this_forward, energies, normsqs,
                    norms, sweep_range, sweep_res >>

\* the end of Expect::sweep and of Expect::solve(propagate = true)
\* (sweep_algorithm.hpp:1138-1144)
Expect_sweep_done ==
    /\ alg = "Expect" /\ pc = "sweep" /\ sweep_range = << >>
    /\ forward' = flip(forward)
    /\ this_forward' = flip(forward)
    /\ pc' = "done"
    /\ hist' = [hist EXCEPT !.swept = Last(sweep_res)]
    /\ UNCHANGED << eng_vars, davidson_conv_thrds,
                    alg, n_sites, me_center, me_dot, bra_is_ket, multi,
                    canonical_form, conf, bond_dims, ket_bond_dims, noises,
                    energies, normsqs, norms, expectations, args, iw, isw,
                    sweep_range, sweep_res, arena >>

Next ==
    \/ DMRG_solve \/ TE_solve \/ Compress_solve \/ Expect_solve
    \/ SetDot \/ sweep \/ blocking
    \/ DMRG_sweep_done \/ TE_sweep_done \/ Compress_sweep_done
    \/ Expect_sweep_done

Spec == Init /\ [][Next]_vars


(* ---------------- the distributed contraction engine ------------------- *)
\* (src/src/block2/parallel_tensor_functions.hpp)
\* the replica set
Workers == {0, 1}
\* the factors of operator strings
Factors == {1, 2}

\* operator expressions (OpExpr): Zero, an operator string (Prod), a sum of
\* operator strings (Sum), and a reference to the local part of a
\* distributed expression (ExprRef)
Zero == [type |-> "Zero", factor |-> 0, sub |-> << >>]
Prod(f) == [type |-> "Prod", factor |-> f, sub |-> << >>]
Sum(strings) == [type |-> "Sum", factor |-> 0, sub |-> strings]
ExprRef(op) == [type |-> "ExprRef", factor |-> 0, sub |-> << op >>]

\* the expressions a worker may hold: local ones, and references nested up
\* to two deep
LocalExprs ==
    {Zero} \cup {Prod(f) : f \in Factors}
    \cup {Sum(<< Prod(1), Prod(f) >>) : f \in Factors}
Exprs ==
    LocalExprs \cup {ExprRef(e) : e \in LocalExprs}
    \cup {ExprRef(ExprRef(e)) : e \in LocalExprs}

\* the steps of a call: a local product accumulated into output k, and a
\* collective over output k (0: the whole group)
multiply(k, f) == [ev |-> "multiply", k |-> k, factor |-> f]
allreduce(k) == [ev |-> "allreduce_sum", k |-> k, factor |-> 0]

\* a variant that hands all_reduce on to the expression it refers to
RECURSIVE tensor_product_multiply_handed_on(_, _, _)
tensor_product_multiply_handed_on(e, k, ar) ==
    CASE e.type = "Prod" -> << multiply(k, e.factor) >>
      [] e.type = "Sum" ->
            Concat([j \in 1..Len(e.sub) |->
                       tensor_product_multiply_handed_on(e.sub[j], k, FALSE)])
      [] e.type = "ExprRef" ->
            tensor_product_multiply_handed_on(e.sub[1], k, ar)
            \o (IF ar THEN << allreduce(k) >> ELSE << >>)
      [] e.type = "Zero" -> << >>

\* a variant that all-reduces at every reference, requested or not
RECURSIVE tensor_product_multiply_always_reduce(_, _, _)
tensor_product_multiply_always_reduce(e, k, ar) ==
    CASE e.type = "Prod" -> << multiply(k, e.factor) >>
      [] e.type = "Sum" ->
            Concat([j \in 1..Len(e.sub) |->
                       tensor_product_multiply_always_reduce(e.sub[j], k,
                                                             FALSE)])
      [] e.type = "ExprRef" ->
            tensor_product_multiply_always_reduce(e.sub[1], k, FALSE)
            \o << allreduce(k) >>
      [] e.type = "Zero" -> << >>

\* ParallelTensorFunctions::tensor_product_multiply,
\* parallel_tensor_functions.hpp:210-248
RECURSIVE tensor_product_multiply(_, _, _)
tensor_product_multiply(e, k, ar) ==
    CASE e.type = "Prod" -> << multiply(k, e.factor) >>
      [] e.type = "Sum" ->
            Concat([j \in 1..Len(e.sub) |->
                       tensor_product_multiply(e.sub[j], k, FALSE)])
      [] e.type = "ExprRef" ->
            tensor_product_multiply(e.sub[1], k, FALSE)
            \o (IF ar THEN << allreduce(k) >> ELSE << >>)
      [] e.type = "Zero" -> << >>

\* ParallelTensorFunctions::tensor_product_multi_multiply,
\* parallel_tensor_functions.hpp:182-208
RECURSIVE tensor_product_multi_multiply(_, _, _)
tensor_product_multi_multiply(e, n, ar) ==
    CASE e.type = "ExprRef" ->
            tensor_product_multi_multiply(e.sub[1], n, FALSE)
            \o (IF ar THEN << allreduce(0) >> ELSE << >>)
      [] e.type = "Zero" -> << >>
      [] OTHER ->
            Concat([i \in 1..n |-> tensor_product_multiply(e, i, FALSE)])

\* a variant that reduces in every mode of the sequencer
RECURSIVE tensor_product_partial_multiply_any_mode(_, _, _)
tensor_product_partial_multiply_any_mode(e, n, mode) ==
    CASE e.type = "Prod" -> << multiply(((e.factor - 1) % n) + 1, e.factor) >>
      [] e.type = "Sum" ->
            Concat([j \in 1..Len(e.sub) |->
                       tensor_product_partial_multiply_any_mode(e.sub[j], n,
                                                                mode)])
      [] e.type = "ExprRef" ->
            tensor_product_partial_multiply_any_mode(e.sub[1], n, mode)
            \o << [ev |-> "reduce_sum", k |-> 0, factor |-> 0] >>
      [] e.type = "Zero" -> << >>

\* ParallelTensorFunctions::tensor_product_partial_multiply,
\* parallel_tensor_functions.hpp:98-178: an operator string is multiplied
\* into the output its quantum label selects (here: its factor), a
\* reference is followed by reduce_sum of the group unless the mode is Auto
RECURSIVE tensor_product_partial_multiply(_, _, _)
tensor_product_partial_multiply(e, n, mode) ==
    CASE e.type = "Prod" -> << multiply(((e.factor - 1) % n) + 1, e.factor) >>
      [] e.type = "Sum" ->
            Concat([j \in 1..Len(e.sub) |->
                       tensor_product_partial_multiply(e.sub[j], n, mode)])
      [] e.type = "ExprRef" ->
            tensor_product_partial_multiply(e.sub[1], n, mode)
            \o (IF mode # "Auto"
                THEN << [ev |-> "reduce_sum", k |-> 0, factor |-> 0] >>
                ELSE << >>)
      [] e.type = "Zero" -> << >>

\* ParallelTensorFunctions::tensor_product_diagonal,
\* parallel_tensor_functions.hpp:250-286: the diagonal of an operator string
\* is added to mat, every reference is followed by an all-reduce of mat
\* unless the mode is Auto
RECURSIVE tensor_product_diagonal(_, _)
tensor_product_diagonal(e, mode) ==
    CASE e.type = "Prod" ->
            << [ev |-> "diagonal", k |-> 1, factor |-> e.factor] >>
      [] e.type = "Sum" ->
            Concat([j \in 1..Len(e.sub) |->
                       tensor_product_diagonal(e.sub[j], mode)])
      [] e.type = "ExprRef" ->
            tensor_product_diagonal(e.sub[1], mode)
            \o (IF mode # "Auto" THEN << allreduce(1) >> ELSE << >>)
      [] e.type = "Zero" -> << >>

\* the steps of the running call on worker p
Trace(p) ==
    CASE callee = "tensor_product_multi_multiply" ->
            tensor_product_multi_multiply(expr[p], Len(cmats), all_reduce)
      [] callee = "tensor_product_partial_multiply" ->
            tensor_product_partial_multiply(expr[p], Len(cmats),
                                            ptf_hist.mode)
      [] callee = "tensor_product_diagonal" ->
            tensor_product_diagonal(expr[p], ptf_hist.mode)
      [] OTHER -> tensor_product_multiply(expr[p], 1, all_reduce)

\* worker p has a next step
Running(p) == callee # "none" /\ ppc[p] < Len(Trace(p))
NextStep(p) == Trace(p)[ppc[p] + 1]

\* a call is entered on every worker with a replicated output; the parallel
\* rule hands every worker an expression of the same kind
InitPTF ==
    /\ InitWith("DMRG", 2, 0, TRUE, FALSE, DefaultConf, << 2 >>, << 2 >>,
                << 0 >>, Caller(1, 1, {TRUE}, 0, FALSE))
    /\ callee \in {"tensor_product_multiply", "tensor_product_multi_multiply",
                    "tensor_product_partial_multiply",
                    "tensor_product_diagonal"}
    /\ expr \in [Workers -> Exprs]
    /\ \A p, q \in Workers :
           (expr[p].type = "ExprRef") = (expr[q].type = "ExprRef")
    /\ all_reduce \in BOOLEAN
    /\ callee \in {"tensor_product_partial_multiply",
                    "tensor_product_diagonal"} => ~all_reduce
    /\ cmats = IF callee \in {"tensor_product_multiply",
                               "tensor_product_diagonal"} THEN << 1 >>
               ELSE << 1, 2 >>
    /\ \E v \in {0, 1} :
           vmats = [p \in Workers |-> [i \in 1..Len(cmats) |-> v]]
    /\ ppc = [p \in Workers |-> 0]
    /\ comm = 0
    /\ \E m \in {"None", "Simple", "Auto"} :
           /\ callee \notin {"tensor_product_partial_multiply",
                              "tensor_product_diagonal"} => m = "None"
           /\ ptf_hist = [calls |-> 1, entry |-> vmats, mode |-> m,
                          queued |-> [p \in Workers |-> << >>],
                          reduce_sums |-> 0]
    /\ NoRot /\ NoTransform /\ NoTrunc /\ NoExpect

\* OperatorFunctions::tensor_product_multiply on worker p:
\* vmat += factor * (lmat x rmat) * cmat (parallel_tensor_functions.hpp:229)
opf_tensor_product_multiply(p) ==
    /\ Running(p) /\ NextStep(p).ev = "multiply"
    /\ LET e == NextStep(p)
       IN  IF ptf_hist.mode = "Auto"
           THEN /\ ptf_hist' = [ptf_hist EXCEPT !.queued[p] = Append(@, e)]
                /\ UNCHANGED vmats
           ELSE /\ vmats' = [vmats EXCEPT ![p][e.k] = @ + e.factor * cmats[e.k]]
                /\ UNCHANGED ptf_hist
    /\ ppc' = [ppc EXCEPT ![p] = @ + 1]
    /\ UNCHANGED << sweep_vars, rot_vars, nt, tr, ex, callee, expr, all_reduce, cmats,
                    comm >>

\* OperatorFunctions::tensor_product_diagonal on worker p:
\* mat += factor * diag(lmat x rmat) (parallel_tensor_functions.hpp:265),
\* queued by the sequencer in mode Auto
opf_tensor_product_diagonal(p) ==
    /\ Running(p) /\ NextStep(p).ev = "diagonal"
    /\ LET e == NextStep(p)
       IN  IF ptf_hist.mode = "Auto"
           THEN /\ ptf_hist' = [ptf_hist EXCEPT !.queued[p] = Append(@, e)]
                /\ UNCHANGED vmats
           ELSE /\ vmats' = [vmats EXCEPT ![p][e.k] = @ + e.factor]
                /\ UNCHANGED ptf_hist
    /\ ppc' = [ppc EXCEPT ![p] = @ + 1]
    /\ UNCHANGED << sweep_vars, rot_vars, nt, tr, ex, callee, expr, all_reduce, cmats,
                    comm >>

RECURSIVE SumOver(_, _)
SumOver(ws, i) ==
    IF ws = {} THEN 0
    ELSE LET q == CHOOSE q \in ws : TRUE
         IN  vmats[q][i] + SumOver(ws \ {q}, i)

\* rule->comm->allreduce_sum (parallel_tensor_functions.hpp:195, 240): the
\* collective completes once every worker has entered it and leaves the sum
\* of the workers' outputs on every worker
allreduce_sum ==
    /\ \A p \in Workers : Running(p) /\ NextStep(p).ev = "allreduce_sum"
    /\ vmats' = [p \in Workers |->
                    [i \in DOMAIN vmats[p] |->
                        IF NextStep(p).k \in {0, i} THEN SumOver(Workers, i)
                        ELSE vmats[p][i]]]
    /\ ppc' = [p \in Workers |-> ppc[p] + 1]
    /\ comm' = comm + 1
    /\ UNCHANGED << sweep_vars, rot_vars, nt, tr, ex, callee, expr, all_reduce, cmats,
                    ptf_hist >>

\* the root of the communicator
root == 0

\* rule->comm->reduce_sum(vmats, rule->comm->root)
\* (parallel_tensor_functions.hpp:171-172): the collective completes once
\* every worker has entered it and leaves the sum of the workers' outputs on
\* the root; the outputs of the other workers are as they were
reduce_sum ==
    /\ \A p \in Workers : Running(p) /\ NextStep(p).ev = "reduce_sum"
    /\ vmats' = [vmats EXCEPT ![root] =
                    [i \in DOMAIN vmats[root] |-> SumOver(Workers, i)]]
    /\ ppc' = [p \in Workers |-> ppc[p] + 1]
    /\ ptf_hist' = [ptf_hist EXCEPT !.reduce_sums = @ + 1]
    /\ UNCHANGED << sweep_vars, rot_vars, nt, tr, ex, callee, expr, all_reduce, cmats,
                    comm >>

\* the same function is entered again on every worker with the outputs an
\* all-reduce has just left, on an expression with nothing local to add
\* (parallel_tensor_functions.hpp:235-243)
call_again ==
    /\ callee \in {"tensor_product_multiply", "tensor_product_multi_multiply"}
    /\ \A p \in Workers : ~Running(p)
    /\ comm = 1 /\ ptf_hist.calls < MaxReduce
    /\ \E e \in {ExprRef(Zero), ExprRef(ExprRef(Zero))} :
           expr' = [p \in Workers |-> e]
    /\ all_reduce' = TRUE
    /\ ppc' = [p \in Workers |-> 0]
    /\ comm' = 0
    /\ ptf_hist' = [ptf_hist EXCEPT !.calls = @ + 1, !.entry = vmats]
    /\ UNCHANGED << sweep_vars, rot_vars, nt, tr, ex, callee, cmats, vmats >>

NextPTF ==
    \/ \E p \in Workers : opf_tensor_product_multiply(p)
    \/ \E p \in Workers : opf_tensor_product_diagonal(p)
    \/ allreduce_sum
    \/ reduce_sum
    \/ call_again

SpecPTF == InitPTF /\ [][NextPTF]_vars

(* ----------------------- left_rotate / right_rotate -------------------- *)
\* the distinct operators of a tensor; entry 0 of a symbolic vector is Zero
Ops == 1..MaxOps

\* the symbolic vectors a->lmat / a->rmat: Zero entries and operators, each
\* operator once (its destination block is asserted unallocated, line 296)
SymVectors ==
    {v \in UNION {[1..n -> 0..MaxOps] : n \in 1..MaxOps} :
        \A i, j \in DOMAIN v : (i # j /\ v[i] # 0) => v[i] # v[j]}

\* the ownership rule: every operator has one owner; a repeated operator is
\* held by every worker
owner(op) == rot.owner[op]
own(p, op) == owner(op) = p
repeat(op) == rot.repeat[op]
available(p, op) == own(p, op) \/ repeat(op)

\* the blocks of the destination tensor, with the number of times each has
\* been allocated
NullBlock ==
    [data |-> "null", by |-> -1, via |-> "none", factor |-> 0, allocs |-> 0]
Allocated ==
    [data |-> "zero", by |-> -1, via |-> "none", factor |-> 1, allocs |-> 1]
Rotated(p, m) ==
    [data |-> IF m = "Auto" THEN "queued" ELSE "rotated", by |-> p,
     via |-> "local", factor |-> 1, allocs |-> 1]

\* a variant that takes any block for unallocated
unallocated_or_not(b) == TRUE

\* assert(c->ops.at(pa)->data == nullptr) (line 296 / 321)
unallocated(b) == b.data = "null"

\* a variant that leaves the factor as allocate set it
assigned_block_unit_factor(p, pa) ==
    [data |-> "a", by |-> p,
     via |-> IF rot.same_n[pa] THEN "copy_data_from"
             ELSE "selective_copy_from",
     factor |-> 1, allocs |-> 1]

\* the block of c after allocate, copy_data_from / selective_copy_from and
\* the copy of the factor (parallel_tensor_functions.hpp:59-65 / 87-93)
assigned_block(p, pa) ==
    [data |-> "a", by |-> p,
     via |-> IF rot.same_n[pa] THEN "copy_data_from"
             ELSE "selective_copy_from",
     factor |-> rot.a_factor, allocs |-> 1]

\* a variant that rotates wherever the block is available
rotates_where_available(p, op) == available(p, op)

\* the worker that computes the rotation of op (line 299 / 324)
rotates(p, op) == own(p, op)

\* a variant that never flushes the queued rotations
flushes_never(m) == FALSE

\* the queued rotations are performed before the broadcasts (303-304)
flushes(m) == m = "Auto"

InitRot ==
    /\ InitWith("DMRG", 2, 0, TRUE, FALSE, DefaultConf, << 2 >>, << 2 >>,
                << 0 >>, Caller(1, 1, {TRUE}, 0, FALSE))
    /\ NoCall /\ NoTransform /\ NoTrunc /\ NoExpect
    /\ \E d \in {"left", "right"}, m \in {"None", "Simple", "Auto"},
          v \in SymVectors, o \in [Ops -> Workers], r \in [Ops -> BOOLEAN],
          fn \in {"rotate", "assign"}, cn \in [Ops -> BOOLEAN],
          f \in Factors, whose \in {"a", "c"}, pre \in {0} \cup Ops :
           /\ \A op \in Ops :
                  (\A i \in DOMAIN v : v[i] # op) =>
                      (o[op] = 0 /\ ~r[op] /\ cn[op])
           /\ fn = "rotate" => (f = 1 /\ \A op \in Ops : cn[op])
           /\ fn = "assign" => (m = "None" /\ pre = 0)
           \* a caller may hand over a tensor c of its own one of whose
           \* blocks it has allocated already
           /\ pre # 0 => (whose = "c" /\ \E i \in DOMAIN v : v[i] = pre)
           /\ rot = [dir |-> d, fn |-> fn, mode |-> m, mat |-> v,
                     owner |-> o, repeat |-> r, same_n |-> cn, a_factor |-> f,
                     c_of |-> whose, pre |-> pre]
           /\ c_ops = [p \in Workers |->
                          [op \in Ops |->
                              IF op = pre /\ (o[op] = p \/ r[op])
                              THEN Allocated ELSE NullBlock]]
           /\ rpc = [p \in Workers |-> [loop |-> fn, i |-> 1]]
           /\ c_mat = [p \in Workers |->
                          [i \in DOMAIN v |-> [sym |-> v[i], of |-> whose]]]
    /\ sent = [op \in Ops |-> NullBlock]
    /\ nrot = [p \in Workers |-> [op \in Ops |-> 0]]

\* one pass of the loop of left_assign / right_assign on worker p (49-67 /
\* 77-95): a Zero entry of a becomes the entry of c; the block of another
\* entry is allocated and filled from a where the operator is available
assign(p) ==
    /\ rot.dir # "none" /\ rpc[p].loop = "assign"
    /\ LET i == rpc[p].i
           pa == rot.mat[i]
           \* the entries of c are c's own objects ("c") or, where the
           \* caller built c from a, the very entries of a ("a")
       IN  /\ c_mat' = IF pa = 0
                        THEN [c_mat EXCEPT ![p][i] = [sym |-> 0, of |-> "a"]]
                        ELSE c_mat
           /\ c_ops' = IF pa # 0 /\ available(p, pa)
                        THEN [c_ops EXCEPT ![p][pa] = assigned_block(p, pa)]
                        ELSE c_ops
           /\ rpc' = [rpc EXCEPT ![p] =
                         IF i < Len(rot.mat) THEN [loop |-> "assign", i |-> i + 1]
                         ELSE [loop |-> "done", i |-> 0]]
    /\ UNCHANGED << sweep_vars, ptf_vars, nt, tr, ex, rot, sent, nrot >>

\* a variant that stores a Zero entry of a into the vector of c
rotated_entry_by_reference(p, i) ==
    IF rot.mat[i] = 0 THEN [sym |-> 0, of |-> "a"] ELSE c_mat[p][i]

\* entry i of the vector of c after pass i of the first loop: the loop
\* skips Zero entries and never stores into c->lmat / c->rmat (292-302)
rotated_entry(p, i) == c_mat[p][i]

\* one pass of the first loop on worker p (292-302 / 317-327): allocate the
\* destination where the operator is available, which is fatal when it is
\* allocated already, and rotate where the operator is owned
tensor_rotate(p) ==
    /\ rot.dir # "none" /\ rpc[p].loop = "rotate"
    /\ LET i == rpc[p].i
           pa == rot.mat[i]
           allocs == c_ops[p][pa].allocs + 1
       IN  IF pa # 0 /\ available(p, pa) /\ ~unallocated(c_ops[p][pa])
           THEN /\ rpc' = [rpc EXCEPT ![p] = [loop |-> "aborted", i |-> i]]
                /\ UNCHANGED << c_ops, c_mat, nrot >>
           ELSE /\ IF pa # 0 /\ rotates(p, pa)
                   THEN /\ c_ops' = [c_ops EXCEPT ![p][pa] =
                                        [Rotated(p, rot.mode)
                                            EXCEPT !.allocs = allocs]]
                        /\ nrot' = [nrot EXCEPT ![p][pa] = @ + 1]
                   ELSE /\ c_ops' = IF pa # 0 /\ available(p, pa)
                                    THEN [c_ops EXCEPT ![p][pa] =
                                             [Allocated
                                                 EXCEPT !.allocs = allocs]]
                                    ELSE c_ops
                        /\ UNCHANGED nrot
                /\ c_mat' = [c_mat EXCEPT ![p][i] = rotated_entry(p, i)]
                /\ rpc' = [rpc EXCEPT ![p] =
                              IF i < Len(rot.mat)
                              THEN [loop |-> "rotate", i |-> i + 1]
                              ELSE [loop |-> "flush", i |-> 0]]
    /\ UNCHANGED << sweep_vars, ptf_vars, nt, tr, ex, rot, sent >>

\* opf->seq->auto_perform() on worker p (303-304 / 328-329)
auto_perform(p) ==
    /\ rot.dir # "none" /\ rpc[p].loop = "flush"
    /\ c_ops' = [c_ops EXCEPT ![p] =
                    [op \in Ops |->
                        IF flushes(rot.mode) /\ c_ops[p][op].data = "queued"
                        THEN [c_ops[p][op] EXCEPT !.data = "rotated"]
                        ELSE c_ops[p][op]]]
    /\ rpc' = [rpc EXCEPT ![p] = [loop |-> "broadcast", i |-> 1]]
    /\ UNCHANGED << sweep_vars, ptf_vars, nt, tr, ex, rot, c_mat, sent, nrot >>

\* a variant in which the owner also broadcasts what is not repeated
broadcasts_or_owned(p, pa) == pa # 0 /\ (repeat(pa) \/ own(p, pa))

\* worker p enters the broadcast of entry pa: the entry is not Zero and
\* rule->repeat(pa) (306-309 / 331-334)
broadcasts(p, pa) == pa # 0 /\ repeat(pa)

\* one pass of the second loop on worker p (305-310 / 330-335): the owner of
\* a repeated operator sends its block, every other worker receives it
broadcast(p) ==
    /\ rot.dir # "none" /\ rpc[p].loop = "broadcast"
    /\ LET i == rpc[p].i
           pa == rot.mat[i]
       IN  /\ IF broadcasts(p, pa)
              THEN IF own(p, pa)
                   THEN /\ sent' = [sent EXCEPT ![pa] = c_ops[p][pa]]
                        /\ UNCHANGED c_ops
                   ELSE /\ sent[pa] # NullBlock
                        /\ c_ops' = [c_ops EXCEPT ![p][pa] =
                                         [sent[pa] EXCEPT
                                             !.via = "broadcast",
                                             !.allocs = c_ops[p][pa].allocs]]
                        /\ UNCHANGED sent
              ELSE UNCHANGED << c_ops, sent >>
           /\ rpc' = [rpc EXCEPT ![p] =
                         IF i < Len(rot.mat)
                         THEN [loop |-> "broadcast", i |-> i + 1]
                         ELSE [loop |-> "done", i |-> 0]]
    /\ UNCHANGED << sweep_vars, ptf_vars, nt, tr, ex, rot, c_mat, nrot >>

NextRot ==
    \/ \E p \in Workers : assign(p)
    \/ \E p \in Workers : tensor_rotate(p)
    \/ \E p \in Workers : auto_perform(p)
    \/ \E p \in Workers : broadcast(p)

SpecRot == InitRot /\ [][NextRot]_vars

(* -------------------------- numerical_transform ----------------------- *)
\* the j-th operator string over the materialized operators 1, 2, ...: each
\* operator plain and conjugated
OpString(j, f) == [op |-> (j + 1) \div 2, conj |-> j % 2 = 0, factor |-> f]

\* the localized defining expressions: Zero, or a sum of the first len
\* operator strings
ZeroExpr == [type |-> "Zero", strings |-> << >>]
SumExpr(len, f) ==
    [type |-> "Sum", strings |-> [j \in 1..len |-> OpString(j, f)]]

\* a tensor with n_old materialized operators and the new names, with the
\* defining expression of every name
InitTransform ==
    /\ InitWith("DMRG", 2, 0, TRUE, FALSE, DefaultConf, << 2 >>, << 2 >>,
                << 0 >>, Caller(1, 1, {TRUE}, 0, FALSE))
    /\ NoCall /\ NoRot /\ NoTrunc /\ NoExpect
    /\ \E n_old \in 1..MaxOps, n_new \in 1..MaxOps,
          m \in {"None", "Simple", "Auto"} :
       \E es \in [1..n_new ->
                     {ZeroExpr} \cup {SumExpr(len, f) :
                                         len \in 0..(2 * n_old),
                                         f \in Factors}],
          zs \in [1..n_new -> BOOLEAN], ls \in [1..n_new -> BOOLEAN] :
           \* an expression that is Zero has nothing to localize
           /\ \A k \in 1..n_new : zs[k] => es[k] = ZeroExpr /\ ls[k]
           /\ nt = [at |-> "loop", mode |-> m, n_ops |-> n_old + n_new,
                    exprs |-> es, zero |-> zs, is_local |-> ls, i |-> 0,
                    queued |-> [k \in 1..n_new |-> << >>],
                    acc |-> [k \in 1..n_new |-> << >>],
                    reduced |-> [k \in 1..n_new |-> << >>]]

\* a variant that looks at the defining sum of the last name only
HasString_of_last_name(i) ==
    {k \in DOMAIN nt.exprs :
        /\ k = Len(nt.exprs)
        /\ nt.exprs[k].type = "Sum" /\ i < Len(nt.exprs[k].strings)}

\* the names whose defining sum has a string at index i (0-based)
HasString(i) ==
    {k \in DOMAIN nt.exprs :
        nt.exprs[k].type = "Sum" /\ i < Len(nt.exprs[k].strings)}

\* the bound of the loop over passes: a->ops.size() (line 352)
pass_bound == nt.n_ops

\* one pass of the loop at 352-391: string i of every defining sum that has
\* one is added to its name (opf->iadd), at once when there is no sequencer
\* and queued otherwise; the Simple sequencer is performed after the pass
numerical_transform_pass ==
    /\ nt.at = "loop"
    /\ LET i == nt.i
           found == HasString(i) # {}
           add(q) == [k \in DOMAIN q |->
                         IF k \in HasString(i)
                         THEN Append(q[k], nt.exprs[k].strings[i + 1])
                         ELSE q[k]]
           none == [k \in DOMAIN nt.exprs |-> << >>]
           cat(a, q) == [k \in DOMAIN a |-> a[k] \o q[k]]
           q1 == IF nt.mode = "None" THEN nt.queued ELSE add(nt.queued)
           a1 == IF nt.mode = "None" THEN add(nt.acc) ELSE nt.acc
           perform == found /\ nt.mode = "Simple"
       IN  nt' = [nt EXCEPT
                     !.queued = IF perform THEN none ELSE q1,
                     !.acc = IF perform THEN cat(a1, q1) ELSE a1,
                     !.i = i + 1,
                     !.at = IF found /\ i + 1 < pass_bound THEN "loop"
                            ELSE "flush"]
    /\ UNCHANGED << sweep_vars, ptf_vars, rot_vars, tr, ex >>

\* a variant that reduces the local results too
reduce_to_owner_all(acc) ==
    [k \in DOMAIN nt.exprs |-> IF nt.zero[k] THEN << >> ELSE << acc[k] >>]

\* the loop at 394-407: rule->comm->reduce_sum(a->ops.at(nop),
\* rule->owner(nop)) for every name whose expression is not Zero and not
\* local; of every reduce-sum, what the reduced block had accumulated
reduce_to_owner(acc) ==
    [k \in DOMAIN nt.exprs |->
        IF nt.zero[k] \/ nt.is_local[k] THEN << >> ELSE << acc[k] >>]

\* the rest of numerical_transform (392-407): the Auto sequencer is
\* performed, and every name whose expression is not Zero and not local is
\* reduce-summed to its owner
numerical_transform_finish ==
    /\ nt.at = "flush"
    /\ LET flushed == IF nt.mode = "Auto"
                      THEN [k \in DOMAIN nt.acc |->
                               nt.acc[k] \o nt.queued[k]]
                      ELSE nt.acc
       IN  nt' = [nt EXCEPT
                     !.queued = IF nt.mode = "Auto"
                                THEN [k \in DOMAIN nt.exprs |-> << >>]
                                ELSE @,
                     !.acc = flushed,
                     !.reduced = reduce_to_owner(flushed),
                     !.at = "done"]
    /\ UNCHANGED << sweep_vars, ptf_vars, rot_vars, tr, ex >>

NextTransform == numerical_transform_pass \/ numerical_transform_finish

SpecTransform == InitTransform /\ [][NextTransform]_vars

(* ----------------- truncation of a density matrix ---------------------- *)
\* the budgets a sweep passes to split_density_matrix: a bond dimension, or
\* -1 where the truncation pattern asks for no truncation (484-489)
Budgets == {-1} \cup (0..(MaxBlocks + 1))

\* the sum of the weights of the blocks in S
RECURSIVE Weight(_, _)
Weight(ws, S) ==
    IF S = {} THEN 0
    ELSE LET k == CHOOSE k \in S : TRUE
         IN  ws[k] + Weight(ws, S \ {k})

\* a variant that picks a block of smallest weight
lightest(ws, S) == CHOOSE k \in S : \A j \in S : ws[k] <= ws[j]

\* a block of largest weight among those in S
heaviest(ws, S) == CHOOSE k \in S : \A j \in S : ws[k] >= ws[j]

\* the blocks kept when truncating to at most d of those in S: the smallest
\* weights are discarded first; the budget -1 keeps every block
RECURSIVE kept_blocks(_, _, _)
kept_blocks(ws, S, d) ==
    IF d = -1 THEN S
    ELSE IF d = 0 \/ S = {} THEN {}
    ELSE LET k == heaviest(ws, S)
         IN  {k} \cup kept_blocks(ws, S \ {k}, d - 1)

\* the truncation error 1 - kept / total, as a fraction
truncation_error(ws, kept) ==
    [num |-> Weight(ws, DOMAIN ws) - Weight(ws, kept),
     den |-> Weight(ws, DOMAIN ws)]

\* a density matrix of up to MaxBlocks label blocks, not all of weight zero
InitTrunc ==
    /\ InitWith("DMRG", 2, 0, TRUE, FALSE, DefaultConf, << 2 >>, << 2 >>,
                << 0 >>, Caller(1, 1, {TRUE}, 0, FALSE))
    /\ NoCall /\ NoRot /\ NoTransform /\ NoExpect
    /\ \E n \in 1..MaxBlocks : \E ws \in [1..n -> 0..MaxWeight] :
           /\ \E k \in 1..n : ws[k] # 0
           /\ tr = [weights |-> ws, runs |-> << >>]

\* error = split_density_matrix(dm, ket, bond_dim, ...) on the same density
\* matrix with some budget (sweep_algorithm.hpp:141-144, 490-492)
split_density_matrix ==
    /\ tr.weights # << >>
    /\ \E d \in Budgets :
        LET kept == kept_blocks(tr.weights, DOMAIN tr.weights, d)
            run == [d |-> d, kept |-> Weight(tr.weights, kept),
                    n_kept |-> Cardinality(kept),
                    error |-> truncation_error(tr.weights, kept)]
        IN  tr' = [tr EXCEPT !.runs = IF @ = << >> THEN << run >>
                                      ELSE << @[Len(@)], run >>]
    /\ UNCHANGED << sweep_vars, ptf_vars, rot_vars, nt, ex >>

SpecTrunc == InitTrunc /\ [][split_density_matrix]_vars

(* ------------- the weighted expectation of a multi-target state -------- *)
\* multiplicities[i] * expl(-beta * (energies[i] - energies[0])) (843-846):
\* m times exp(-k) is kept exactly, as the bag of m copies of the exponent k
Boltzmann(m, k) == [x \in {k} |-> m]

\* std::accumulate(partition_weights.begin(), partition_weights.end(), 0.0L)
RECURSIVE accumulate(_)
accumulate(ws) ==
    IF ws = << >> THEN EmptyBag ELSE Head(ws) (+) accumulate(Tail(ws))

\* get_partition_weights, sweep_algorithm.hpp:838-852: every weight is
\* divided by the sum of all of them
get_partition_weights(beta, es, multiplicities) ==
    LET w == [i \in DOMAIN es |->
                 Boltzmann(multiplicities[i],
                           beta * (es[i] - es[1]))]
        psum == accumulate(w)
    IN  [i \in DOMAIN es |-> [num |-> w[i], den |-> psum]]

\* the loop over l at sweep_algorithm.hpp:1066-1071: the values of one
\* operator over the target states, summed with the partition weights the
\* object holds (the weights of one object have one denominator)
weighted(pw, second) ==
    LET times(b, c) == IF c = 0 THEN EmptyBag ELSE [x \in DOMAIN b |-> c * b[x]]
    IN  [num |-> accumulate([l \in DOMAIN pw |-> times(pw[l].num, second[l])]),
         den |-> pw[1].den]

\* an Expect object built for a state of nroots target states by either
\* constructor (866-880): the first leaves the single weight 1.0L, the
\* second takes beta, the energies and the multiplicities from its caller
InitExpect ==
    /\ InitWith("Expect", 2, 0, TRUE, TRUE, DefaultConf, << 2 >>, << 1 >>,
                << 0 >>, Caller(1, 1, {TRUE}, 0, FALSE))
    /\ NoCall /\ NoRot /\ NoTransform /\ NoTrunc
    /\ \E nroots \in 1..MaxRoots, thermal \in BOOLEAN, beta \in {0, 1} :
       \E n \in 1..nroots :
       \E es \in [1..n -> {0, 1}], multiplicities \in [1..n -> {1, 2}] :
           /\ ~thermal =>
                  /\ beta = 0 /\ n = 1
                  /\ es = << 0 >> /\ multiplicities = << 1 >>
           /\ ex = [at |-> "built", nroots |-> nroots, thermal |-> thermal,
                    beta |-> beta, energies |-> es,
                    multiplicities |-> multiplicities,
                    partition_weights |->
                        IF thermal
                        THEN get_partition_weights(beta, es,
                                                   multiplicities)
                        ELSE << [num |-> Boltzmann(1, 0),
                                 den |-> Boltzmann(1, 0)] >>,
                    values |-> << >>, reported |-> << >>]

\* the end of Expect::update_multi_two_dot (1064-1073) for one operator
\* whose values on the target states are those the kernel returned
update_multi_two_dot ==
    /\ ex.at = "built"
    /\ \E second \in [1..ex.nroots -> {0, 1}] :
           ex' = [ex EXCEPT !.values = second,
                            !.reported = weighted(ex.partition_weights, second),
                            !.at = "done"]
    /\ UNCHANGED << sweep_vars, ptf_vars, rot_vars, nt, tr >>

SpecExpect == InitExpect /\ [][update_multi_two_dot]_vars

(* ------------------------------ properties ----------------------------- *)
\* the states an algorithm renormalizes: bra and ket when they are distinct
\* objects of Compress or Expect, the ket otherwise
Swept ==
    IF alg \in {"Compress", "Expect"} /\ ~bra_is_ket
    THEN {"bra", "ket"} ELSE {"ket"}

\* the tag string L^pos tag R^* over n sites
Canonical(cf, n, pos, tag) ==
    \A k \in 0..(n - 1) :
        cf[k] = IF k < pos THEN "L" ELSE IF k = pos THEN tag ELSE "R"

\* a two-site blocking step with propagation has completed
StepDone ==
    hist.step.end = "ok" /\ hist.step.dot = 2 /\ hist.step.propagate

\* C1: after every completed two-site blocking step with propagation, the
\* tag string of every swept state is L*CR* (L*MR* for a multi-target state)
\* with its one C (M) at i+1 after a forward step at i and at i after a
\* backward step at i
CanonicalFormInvariant ==
    StepDone =>
        \A w \in Swept :
            Canonical(canonical_form[w], n_sites,
                      IF hist.step.fwd THEN hist.step.i + 1 ELSE hist.step.i,
                      IF multi THEN "M" ELSE "C")

\* a backward step at the left end of a chain of more than two sites, in a
\* sweep that follows a reversal, on distinct bra and ket
CanonicalFormWitness ==
    /\ StepDone /\ alg = "Compress" /\ ~bra_is_ket
    /\ ~hist.step.fwd /\ hist.step.i = 0
    /\ Len(hist.dirs) >= 2 /\ n_sites > 2
    /\ canonical_form["bra"][0] = "C" /\ canonical_form["bra"][1] = "R"

\* a sweep has run through its range
SweepDone == pc = "sweep" /\ sweep_range = << >> /\ hist.visited # << >>

\* the end of the chain a sweep in direction fwd runs to / starts from
EndOf(fwd) == IF fwd THEN n_sites - me_dot ELSE 0
StartOf(fwd) == IF fwd THEN 0 ELSE n_sites - me_dot

Flipped(d, k) == IF k % 2 = 0 THEN d ELSE ~d

\* C3: consecutive sweeps of one solve call have opposite directions, the
\* first has the direction passed in, and when solve returns the stored flag
\* is that direction flipped once per sweep executed
AlternatingDirections ==
    /\ \A k \in 1..Len(hist.dirs) : hist.dirs[k] = Flipped(hist.fwd_arg, k - 1)
    /\ (pc = "done" /\ hist.dirs # << >>) =>
           this_forward = Flipped(hist.fwd_arg, Len(hist.dirs))

\* DMRG::solve returned by early convergence after two of three sweeps
AlternatingDirectionsWitness ==
    /\ alg = "DMRG" /\ pc = "done" /\ args.n_sweeps = MaxSweeps
    /\ Len(hist.dirs) = 2 /\ hist.fwd_arg /\ this_forward


\* solve returned before n_sweeps sweeps
StoppedEarly(results) ==
    pc = "done" /\ Len(results) < args.n_sweeps

\* the schedule v holds one value from sweep w (counted from 1) on
Settled(v, w) == \A j \in w..Len(v) : v[j] = v[w]

\* C4 (as stated): DMRG::solve stops early only after a sweep whose best
\* energy is within tol of the previous sweep's and from which on neither
\* the bond-dimension schedule nor the noise schedule changes
DMRGStopsWhenSchedulesFinished ==
    (alg = "DMRG" /\ ~multi /\ StoppedEarly(energies)) =>
        LET w == Len(energies)
        IN  /\ w >= 2
            /\ Abs(energies[w][1] - energies[w - 1][1]) < TolOfCall(hist.calls)
            /\ Settled(bond_dims, w)
            /\ Settled(noises, w)

\* C5 (as stated): Compress::solve stops early only after a sweep whose norm
\* is within tol of the previous sweep's and from which on none of the noise,
\* bra bond-dimension and ket bond-dimension schedules changes
CompressStopsWhenSchedulesFinished ==
    (alg = "Compress" /\ StoppedEarly(norms)) =>
        LET w == Len(norms)
        IN  /\ w >= 2
            /\ Abs(norms[w] - norms[w - 1]) < args.tol
            /\ Settled(noises, w)
            /\ Settled(bond_dims, w)
            /\ Settled(ket_bond_dims, w)

\* what blocking does before it looks at me->dot, and the exception
Preamble == {"check_signal", "move_to", "throw runtime_error"}

\* a blocking was requested with me->dot other than 2
OneSiteRequested == hist.step.i # -1 /\ hist.step.dot # 2

OneSiteTimeEvolutionCompletes ==
    (alg = "TE" /\ me_dot = 1 /\ hist.calls = 2 /\ conf.n_sub_sweeps = 2) =>
        /\ pc # "error"
        /\ pc \notin {"loop", "sweep"} =>
               pc = "done" /\ Len(energies) = args.n_sweeps

\* C8: ImaginaryTE::solve has completed Len(energies) time steps, each
\* normalized once and with one energy and one squared norm; on return it has
\* run n_sweeps * n_sub_sweeps sweeps, with advance on the last sub-sweep of
\* each time step only, and the last energy and squared norm are those of
\* the last sub-sweep
TimeEvolutionSchedule ==
    alg = "TE" =>
        /\ pc \in {"loop", "sweep", "done"} =>
               /\ Len(energies) = hist.n_normalize
               /\ Len(normsqs) = hist.n_normalize
               /\ pc # "done" => hist.n_normalize = iw
        /\ pc = "done" =>
               /\ Len(hist.dirs) = args.n_sweeps * conf.n_sub_sweeps
               /\ \A k \in 1..Len(hist.advs) :
                      hist.advs[k] = (k % conf.n_sub_sweeps = 0)
               /\ Len(energies) = args.n_sweeps
               /\ Len(normsqs) = args.n_sweeps
               /\ Last(energies) = hist.swept.energy
               /\ Last(normsqs) = hist.swept.normsq

\* the second call of ImaginaryTE::solve returned after two time steps of
\* two sub-sweeps
TimeEvolutionWitness ==
    /\ alg = "TE" /\ pc = "done" /\ hist.calls = 2
    /\ args.n_sweeps = 2 /\ conf.n_sub_sweeps = 2
    /\ hist.advs = << FALSE, TRUE, FALSE, TRUE >>
    /\ Len(energies) = 2

\* C9: every block is returned while it is the top of its frame, and between
\* blocking steps (and after solve) both frames are empty
ArenaDiscipline ==
    /\ arena.ok
    /\ pc # "abort" => arena.stack = << << >>, << >> >> /\ arena.active = 0

\* a time-evolution step that used both frames has completed
ArenaWitness ==
    /\ StepDone /\ alg = "TE" /\ hist.calls = 2
    /\ \E k \in DOMAIN hist.last :
           hist.last[k].op = "alloc" /\ hist.last[k].arg = "k"
    /\ \E k \in DOMAIN hist.last :
           hist.last[k].op = "free" /\ hist.last[k].arg = "dm"
    /\ arena.stack = << << >>, << >> >>


\* the call has returned on every worker
Returned == callee # "none" /\ \A p \in Workers : ~Running(p)

\* C10: a call of the distributed multiply never issues more than one
\* all-reduce, and none when all_reduce was not requested; when the
\* expression is an ExprRef and all_reduce was requested, it has issued
\* exactly one when it has returned on all workers, however the ExprRefs are
\* nested, and the output is then the same on every worker
OneAllReducePerCall ==
    callee \notin {"none", "tensor_product_diagonal"} =>
        /\ comm <= 1
        /\ ~all_reduce => comm = 0
        /\ (Returned /\ all_reduce /\ \A p \in Workers : expr[p].type = "ExprRef")
               => /\ comm = 1
                  /\ \A p, q \in Workers : vmats[p] = vmats[q]

\* tensor_product_multiply has returned on both workers, one of which held a
\* reference to a reference
OneAllReduceWitness ==
    /\ Returned /\ all_reduce /\ comm = 1
    /\ callee = "tensor_product_multiply"
    /\ expr[0] = ExprRef(ExprRef(Sum(<< Prod(1), Prod(2) >>)))
    /\ expr[1] = ExprRef(ExprRef(Prod(2)))
    /\ vmats[0] = vmats[1] /\ vmats[0][1] = 5

\* a call entered on the outputs of an all-reduce, with nothing local to add,
\* has returned on all workers: the all-reduce has been applied again to the
\* same data
ReducedAgain == ptf_hist.calls >= 2 /\ Returned

PartialReturned == callee = "tensor_product_partial_multiply" /\ Returned

\* the number of ExprRef nodes a call on e evaluates
RECURSIVE RefDepth(_)
RefDepth(e) == IF e.type = "ExprRef" THEN 1 + RefDepth(e.sub[1]) ELSE 0

\* what the operator strings of e add to output i of a group of n outputs
RECURSIVE Contribution(_, _, _)
Contribution(e, i, n) ==
    CASE e.type = "Prod" ->
            IF ((e.factor - 1) % n) + 1 = i THEN e.factor * cmats[i] ELSE 0
      [] e.type = "Sum" ->
            IF e.sub = << >> THEN 0
            ELSE Contribution(Head(e.sub), i, n)
                 + Contribution([e EXCEPT !.sub = Tail(@)], i, n)
      [] e.type = "ExprRef" -> Contribution(e.sub[1], i, n)
      [] e.type = "Zero" -> 0

\* the sum over the workers ws of what output i held at entry and of what
\* the worker's expression adds to it
RECURSIVE SumOfLocal(_, _)
SumOfLocal(ws, i) ==
    IF ws = {} THEN 0
    ELSE LET q == CHOOSE q \in ws : TRUE
         IN  ptf_hist.entry[q][i] + Contribution(expr[q], i, Len(cmats))
             + SumOfLocal(ws \ {q}, i)

RotReturned == rot.fn = "rotate" /\ \A p \in Workers : rpc[p].loop = "done"

\* the non-Zero operators of the symbolic vector
NonZero == {rot.mat[i] : i \in DOMAIN rot.mat} \ {0}

\* C12: every non-Zero operator of the symbolic vector is owned by exactly
\* one worker, its owner; tensor_rotate is never called for it on another
\* worker nor twice, and when the rotation has returned on all workers it
\* has been called for it exactly once, on its owner
OwnedRotationOnce ==
    rot.fn = "rotate" =>
        \A op \in NonZero :
            /\ {p \in Workers : own(p, op)} = {owner(op)}
            /\ \A p \in Workers :
                   nrot[p][op] <= (IF p = owner(op) THEN 1 ELSE 0)
            /\ RotReturned => nrot[owner(op)][op] = 1

\* right_rotate has returned; a repeated operator that follows a Zero entry
\* was rotated once on worker 1, its owner, and not on worker 0
OwnedRotationWitness ==
    /\ RotReturned /\ rot.dir = "right"
    /\ rot.mat = << 0, 2 >> /\ owner(2) = 1 /\ repeat(2)
    /\ nrot[1][2] = 1 /\ nrot[0][2] = 0

\* C13: when the rotation has returned on all workers, every worker on
\* which a non-Zero operator is available holds its block with the rotated
\* data computed by the owner, computed locally on the owner and received
\* by broadcast elsewhere; no other block is allocated
RotatedBlocksWhereAvailable ==
    RotReturned =>
        \A p \in Workers : \A op \in Ops :
            LET b == c_ops[p][op]
            IN  IF op \in NonZero /\ available(p, op)
                THEN /\ b.data = "rotated" /\ b.by = owner(op)
                     /\ b.via = IF p = owner(op) THEN "local" ELSE "broadcast"
                ELSE b = NullBlock

\* left_rotate in Auto mode has returned; worker 0 holds the block that
\* worker 1 rotated and broadcast, and no block of the operator that is
\* owned by worker 1 alone
RotatedBlocksWitness ==
    /\ RotReturned /\ rot.dir = "left" /\ rot.mode = "Auto"
    /\ rot.mat = << 1, 2 >> /\ owner(1) = 1 /\ owner(2) = 1
    /\ repeat(1) /\ ~repeat(2)
    /\ c_ops[0][1] = [data |-> "rotated", by |-> 1, via |-> "broadcast",
                       factor |-> 1, allocs |-> 1]
    /\ c_ops[0][2] = NullBlock /\ c_ops[1][2].data = "rotated"

\* C14 (as stated): when numerical_transform returns, every summand of every
\* defining sum has been accumulated into its new operator exactly once, with
\* its factor and conjugation flag, whatever the length of the sum
EverySummandAbsorbed ==
    nt.at = "done" =>
        \A k \in DOMAIN nt.exprs :
            nt.exprs[k].type = "Sum" =>
                /\ nt.acc[k] = nt.exprs[k].strings
                /\ nt.queued[k] = << >>

\* the summands the passes of numerical_transform absorb into name k: those
\* at an index below the bound of the loop
Absorbed(k) ==
    LET strings == nt.exprs[k].strings
    IN  [j \in 1..(IF Len(strings) < pass_bound THEN Len(strings)
                   ELSE pass_bound) |-> strings[j]]

\* C26: numerical_transform issues, for every new operator whose defining
\* expression is not Zero and not local to its owner, exactly one reduce-sum
\* of the operator's block to its owner, and none for the other new
\* operators; no reduce-sum is issued while the passes run or while
\* operations are queued, and the block that is reduced holds everything the
\* passes accumulated into it
ReduceSumAfterAccumulation ==
    /\ nt.at \in {"loop", "flush"} =>
           \A k \in DOMAIN nt.reduced : nt.reduced[k] = << >>
    /\ nt.at = "done" =>
           \A k \in DOMAIN nt.exprs :
               /\ nt.queued[k] = << >>
               /\ IF ~nt.zero[k] /\ ~nt.is_local[k]
                  THEN nt.reduced[k] = << nt.acc[k] >>
                       /\ nt.acc[k] = Absorbed(k)
                  ELSE nt.reduced[k] = << >>

\* numerical_transform has returned in the mode Auto: the first name is a
\* sum of two strings that is not local and has been reduced once, with
\* both strings in its block; the second is local and has not been reduced
ReduceSumWitness ==
    /\ nt.at = "done" /\ nt.mode = "Auto"
    /\ Len(nt.exprs) = 2
    /\ ~nt.zero[1] /\ ~nt.is_local[1] /\ Len(nt.exprs[1].strings) = 2
    /\ Len(nt.reduced[1]) = 1 /\ Len(nt.reduced[1][1]) = 2
    /\ ~nt.zero[2] /\ nt.is_local[2] /\ nt.reduced[2] = << >>

\* a completed step of ImaginaryTE in mode RK4 at the end of the chain its
\* sweep runs to
RK4BoundaryStep ==
    /\ alg = "TE" /\ conf.mode = "RK4" /\ hist.step.end = "ok"
    /\ \/ hist.step.fwd /\ hist.step.i + 1 = n_sites - 1
       \/ ~hist.step.fwd /\ hist.step.i = 0

\* what the step did to the wavefunction it split
KetOfStep ==
    RunKet([ket |-> "old", tmp |-> "none", stages |-> FALSE], hist.last)

\* how many times the step called o
Calls(o) == Cardinality({k \in DOMAIN hist.last : hist.last[k].op = o})

\* C15 (as the code has it): at the chain-boundary step of a sweep in mode
\* RK4, expo_apply is called once. In an advancing sub-sweep it propagates
\* the state and rk4_apply is not called. In a non-advancing sub-sweep the
\* wavefunction is put back to what it was before expo_apply, and rk4_apply is
\* called to supply the stage vectors of the weighted density matrix: the
\* state is not propagated
BoundaryStepOfRK4 ==
    RK4BoundaryStep =>
        /\ Calls("expo_apply") = 1
        /\ IF hist.step.advance
           THEN /\ KetOfStep.ket = "expo" /\ ~KetOfStep.stages
                /\ Calls("rk4_apply") = 0 /\ Calls("density_matrix") = 1
           ELSE /\ KetOfStep.ket = "old" /\ KetOfStep.stages
                /\ Calls("rk4_apply") = 1
                /\ Calls("density_matrix_with_weights") = 1

\* the backward step at site 0 of a non-advancing sub-sweep
BoundaryStepWitness ==
    /\ RK4BoundaryStep /\ ~hist.step.advance /\ ~hist.step.fwd
    /\ n_sites > 2 /\ KetOfStep = [ket |-> "old", tmp |-> "old",
                                    stages |-> TRUE]

\* C15 (as stated): at the chain-boundary step of every sweep in mode RK4
\* the state is propagated with expo_apply and not with the 4th-order
\* scheme, in advancing and in non-advancing sub-sweeps
BoundaryStepUsesExpoOnly ==
    RK4BoundaryStep =>
        /\ KetOfStep.ket = "expo"
        /\ Calls("rk4_apply") = 0

\* Expect::solve(false) has returned
MeasuredOnly ==
    /\ alg = "Expect" /\ pc = "done" /\ hist.calls > 0
    /\ ~hist.step.propagate /\ hist.step.end = "ok"

\* the step neither truncated nor changed a canonical form
NoTruncation ==
    \A k \in DOMAIN hist.last :
        hist.last[k].op \notin {"split_density_matrix",
                                "multi_split_density_matrix",
                                "density_matrix",
                                "density_matrix_with_multi_target",
                                "canonical_form"}

\* C16 (as the code has it): Expect::solve without propagation runs no
\* sweep: it clears the table of expectations, measures once, at the
\* current center, without truncation, and returns the first value
\* measured there; the table stays empty for every position
MeasuresAtCenterOnly ==
    MeasuredOnly =>
        /\ hist.visited = << >> /\ hist.dirs = << >>
        /\ hist.step.i = me_center
        /\ Calls("expect") = 1 /\ NoTruncation
        /\ hist.swept # << >>
        /\ \A k \in DOMAIN expectations : expectations[k] = << >>

\* solve(false) at center 1 of the longest chain, on distinct bra and ket
MeasuresAtCenterWitness ==
    /\ MeasuredOnly /\ n_sites = MaxSites /\ me_center = 1 /\ ~bra_is_ket
    /\ hist.step.i = 1 /\ expectations[1] = << >>

\* C16 (as stated): Expect::solve without propagation visits every chain
\* position without truncation and leaves the table of expectations filled
\* for every position
MeasurementSweepFillsTable ==
    MeasuredOnly =>
        /\ NoTruncation
        /\ \A k \in 0..(n_sites - me_dot) : expectations[k] # << >>

\* the schedules of DMRG::solve are prepared and its loop is running or over
Prepared == alg = "DMRG" /\ pc \in {"loop", "sweep", "done"}

\* 0.1 * noise if the noise is non-zero, else 0.1 * tol if tol is non-zero,
\* else 1e-10
StatedThrd(noise, tol) ==
    IF noise # 0 THEN [mant |-> noise, exp10 |-> -1]
    ELSE IF tol # 0 THEN [mant |-> tol, exp10 |-> -1]
    ELSE [mant |-> 1, exp10 |-> -10]

\* C17 (as stated): in every call of DMRG::solve the bond-dimension, noise
\* and threshold schedules have an entry for every sweep below n_sweeps, and
\* the threshold a sweep runs with is the one the caller supplied for it or,
\* where none was supplied, 0.1 * noises[iw] if that is non-zero, else
\* 0.1 * tol of this call if that is non-zero, else 1e-10
ThresholdScheduleDerived ==
    Prepared =>
        /\ Len(bond_dims) >= args.n_sweeps
        /\ Len(noises) >= args.n_sweeps
        /\ Len(davidson_conv_thrds) >= args.n_sweeps
        /\ \A k \in 1..Len(hist.thrds) :
               hist.thrds[k] =
                   IF k <= Len(args.thrds) THEN args.thrds[k]
                   ELSE StatedThrd(noises[k], TolOfCall(hist.calls))

\* a position of a running sweep has been stepped through
SweepStepped == hist.visited # << >> /\ hist.last # << >>

\* C18: at every position of every sweep of every algorithm the interruption
\* hook is polled exactly once, as the first thing done for the position,
\* right before its blocking step starts (with move_to) and so after the
\* previous position's step is over; nothing inside the blocking step polls
\* it, the neighbour propagation of the tangent-space scheme included; and no
\* position is visited twice in a sweep
PolledOncePerPosition ==
    SweepStepped =>
        LET i == hist.visited[Len(hist.visited)]
        IN  /\ hist.step.i = i
            /\ hist.last[1] = call("check_signal", "", i)
            /\ Calls("check_signal") = 1
            /\ Len(hist.last) > 1 /\ hist.last[2] = call("move_to", "", i)
            /\ \A j, k \in DOMAIN hist.visited :
                   j # k => hist.visited[j] # hist.visited[k]

\* the second position of a forward tangent-space sweep, away from the end of
\* the chain: the step moves on to the neighbour site and propagates there
PolledOncePerPositionWitness ==
    /\ SweepStepped /\ alg = "TE" /\ conf.mode = "TangentSpace"
    /\ Len(hist.visited) = 2 /\ hist.step.fwd /\ hist.step.end = "ok"
    /\ Calls("move_to") = 2 /\ Calls("expo_apply") = 2

\* a step of a DMRG sweep whose eigensolver used up its iteration budget has
\* just returned
BudgetExhausted ==
    /\ alg = "DMRG" /\ SweepStepped /\ pc = "sweep"
    /\ hist.step.ndav = davidson_max_iter

\* the tags of the two sites of the step after a forward / backward update
TagsUpdated ==
    LET i == hist.step.i
        cf == canonical_form["ket"]
        tag == IF multi THEN "M" ELSE "C"
    IN  IF hist.step.fwd THEN cf[i] = "L" /\ cf[i + 1] = tag
        ELSE cf[i] = tag /\ cf[i + 1] = "R"

AtMost(a, b) == b = -1 \/ (a # -1 /\ a <= b)

\* the number of blocks of non-zero weight
NonZeroBlocks == Cardinality({k \in DOMAIN tr.weights : tr.weights[k] # 0})

\* C20: for the same block weights, a truncation keeps at most its budget of
\* states; of two truncations the one with the larger budget keeps no less
\* weight and has no larger truncation error; the error 1 - kept / total
\* lies in [0, 1], and it is 0 when the budget is at least the number of
\* blocks of non-zero weight or is -1 (no truncation)
TruncationMonotone ==
    /\ \A a \in DOMAIN tr.runs :
           LET r == tr.runs[a]
           IN  /\ r.d # -1 => r.n_kept <= r.d
               /\ r.error.den > 0
               /\ 0 <= r.error.num /\ r.error.num <= r.error.den
               /\ r.error.den - r.error.num = r.kept
               /\ (r.d = -1 \/ r.d >= NonZeroBlocks) => r.error.num = 0
    /\ \A a, b \in DOMAIN tr.runs :
           AtMost(tr.runs[a].d, tr.runs[b].d) =>
               /\ tr.runs[a].kept <= tr.runs[b].kept
               /\ tr.runs[a].error.num * tr.runs[b].error.den
                      >= tr.runs[b].error.num * tr.runs[a].error.den

\* three blocks of weights 1, 2 and 1 truncated to one state and then to two:
\* the kept weight grows from 2 to 3 and the error falls from 2/4 to 1/4
TruncationMonotoneWitness ==
    /\ tr.weights = << 1, 2, 1 >> /\ Len(tr.runs) = 2
    /\ tr.runs[1].d = 1 /\ tr.runs[1].kept = 2 /\ tr.runs[1].error.num = 2
    /\ tr.runs[2].d = 2 /\ tr.runs[2].kept = 3 /\ tr.runs[2].error.num = 1

\* a step of an ImaginaryTE sweep has just returned
TEStepped ==
    alg = "TE" /\ SweepStepped /\ pc = "sweep" /\ hist.step.end = "ok"

\* the budgets the step handed to split_density_matrix
SplitBudgets ==
    {hist.last[k].n : k \in {j \in DOMAIN hist.last :
                                hist.last[j].op = "split_density_matrix"}}

\* C21: a step of ImaginaryTE truncates once; with TruncAfterOdd it applies
\* the bond dimension of the sweep at odd positions and no truncation
\* (budget -1) at even positions, with TruncAfterEven the other way round,
\* with None the bond dimension everywhere; the positions of a sweep are
\* neighbours, so under either pattern every other position of a sweep is
\* left untruncated
TruncationPattern ==
    TEStepped =>
        LET i == hist.step.i
            odd == i % 2 = 1
            p == conf.trunc_pattern
        IN  /\ Calls("split_density_matrix") = 1
            /\ SplitBudgets =
                   {IF p = "None" \/ (p = "TruncAfterOdd" /\ odd)
                       \/ (p = "TruncAfterEven" /\ ~odd)
                    THEN bond_dims[iw + 1] ELSE -1}
            /\ \A k \in 2..Len(hist.visited) :
                   hist.visited[k] % 2 # hist.visited[k - 1] % 2

\* the second position of a sweep from the left end under TruncAfterOdd is
\* truncated to the bond dimension
TruncationPatternWitness ==
    /\ TEStepped /\ conf.trunc_pattern = "TruncAfterOdd"
    /\ hist.visited = << 0, 1 >> /\ SplitBudgets = {bond_dims[iw + 1]}

\* the operations o of the step on state w, in order
OpsOn(o, w) ==
    SelectSeq(hist.last, LAMBDA x : x.op = o /\ x.who = w)

\* the places in the step of the operations o on state w
PlacesOf(o, w) ==
    {k \in DOMAIN hist.last : hist.last[k].op = o /\ hist.last[k].who = w}

\* C22: a step of Compress truncates the bra to the bra bond dimension of
\* the sweep and the ket to the ket bond dimension; the density matrix of the
\* bra is built with the noise of the sweep and the configured noise type,
\* that of the ket with noise 0 and noise type None; and the error the step
\* reports is the one of the truncation of the bra
CompressBraKetBudgets ==
    (alg = "Compress" /\ SweepStepped /\ pc = "sweep"
        /\ hist.step.end = "ok") =>
        LET i == hist.step.i
        IN  /\ OpsOn("split_density_matrix", "bra")
                   = << Op("split_density_matrix", "bra", i, "",
                           bond_dims[iw + 1]) >>
            /\ OpsOn("split_density_matrix", "ket")
                   = << Op("split_density_matrix", "ket", i, "",
                           ket_bond_dims[iw + 1]) >>
            /\ OpsOn("density_matrix", "bra")
                   = << Op("density_matrix", "bra", i, conf.noise_type,
                           noises[iw + 1]) >>
            /\ OpsOn("density_matrix", "ket")
                   = << Op("density_matrix", "ket", i, "None", 0) >>
            /\ Calls("bra_error = error") = 1
            /\ \A e \in PlacesOf("bra_error = error", "bra") :
                   /\ e - 1 \in PlacesOf("alloc", "bra")
                   /\ e - 3 \in PlacesOf("split_density_matrix", "bra")
                   /\ \A k \in PlacesOf("split_density_matrix", "ket") :
                          e < k
            /\ PlacesOf("bra_error = error", "bra") # {}

\* a step with a noisy bra and budgets that differ between bra and ket
CompressBraKetWitness ==
    /\ alg = "Compress" /\ SweepStepped /\ pc = "sweep"
    /\ hist.step.end = "ok" /\ noises[iw + 1] # 0
    /\ conf.noise_type = "DensityMatrix"
    /\ bond_dims[iw + 1] # ket_bond_dims[iw + 1]

\* left_assign / right_assign has returned on worker p
Assigned(p) == rot.fn = "assign" /\ rpc[p].loop = "done"

ZeroUntouched ==
    \A op \in Ops \ NonZero :
        /\ sent[op] = NullBlock
        /\ \A p \in Workers : c_ops[p][op] = NullBlock /\ nrot[p][op] = 0

\* C24 (as the code has it): rotate skips the Zero entries of the symbolic
\* vector of a: nothing is allocated, rotated or broadcast for them, and the
\* symbolic vector of the destination is not written, so that its entries
\* stay what the caller made them
RotateSkipsZero ==
    rot.fn = "rotate" =>
        /\ ZeroUntouched
        /\ \A p \in Workers : \A i \in DOMAIN rot.mat :
               c_mat[p][i] = [sym |-> rot.mat[i], of |-> rot.c_of]

\* left_rotate of a vector with a Zero entry into a tensor whose entries are
\* its own has returned
RotateSkipsZeroWitness ==
    /\ RotReturned /\ rot.dir = "left" /\ rot.mat = << 1, 0 >>
    /\ rot.c_of = "c" /\ c_mat[0][2] = [sym |-> 0, of |-> "c"]
    /\ c_ops[owner(1)][1].data = "rotated"

\* C24 (as stated): when rotate has returned, the entry of the destination
\* at every Zero entry of the source is the very entry of the source, and
\* nothing was allocated, rotated or broadcast for it
RotateCopiesZeroByReference ==
    RotReturned =>
        /\ ZeroUntouched
        /\ \A p \in Workers : \A i \in DOMAIN rot.mat :
               rot.mat[i] = 0 => c_mat[p][i] = [sym |-> 0, of |-> "a"]

\* the places in the step of the corrective propagations
Corrective ==
    {k \in DOMAIN hist.last :
        hist.last[k].op = "expo_apply" /\ hist.last[k].arg = "+beta"}

\* the step calls o on the ket at site s somewhere in the places K
CalledIn(o, s, K) ==
    \E k \in K : hist.last[k] = call(o, "ket", s)

\* C27: a step of ImaginaryTE in the mode TangentSpace that is not at the
\* chain boundary applies exactly one propagation by +beta, to the site the
\* sweep moves to (i + 1 forward, i backward), after the truncation and
\* after both split tensors have been saved and unloaded; the site is then
\* normalized and saved and the flop count and time of the propagation are
\* added to those of the step; the step at the boundary applies none, and
\* no step in the mode RK4 applies any
NeighbourCorrected ==
    TEStepped =>
        LET i == hist.step.i
            fwd == hist.step.fwd
            n == Len(hist.last)
            site == IF fwd THEN i + 1 ELSE i
            boundary == (fwd /\ i + 1 = n_sites - 1) \/ (~fwd /\ i = 0)
        IN  IF conf.mode = "TangentSpace" /\ ~boundary
            THEN \E k \in 1..n :
                    /\ Corrective = {k}
                    /\ hist.last[k].who = "ket" /\ hist.last[k].i = site
                    /\ \A j \in PlacesOf("split_density_matrix", "ket") :
                           j < k
                    /\ \A s \in {i, i + 1} :
                           \E a, b \in 1..(k - 1) :
                               /\ a < b
                               /\ hist.last[a] = call("save_tensor", "ket", s)
                               /\ hist.last[b] =
                                      call("unload_tensor", "ket", s)
                    /\ \E a, b, c \in (k + 1)..n :
                           /\ a < b /\ b < c
                           /\ hist.last[a] = call("normalize", "ket", site)
                           /\ hist.last[b] = call("save_tensor", "ket", site)
                           /\ hist.last[c] = call("pdi += pdk", "ket", site)
                    /\ Cardinality(PlacesOf("pdi += pdk", "ket")) = 1
            ELSE /\ Corrective = {}
                 /\ PlacesOf("pdi += pdk", "ket") = {}

\* a backward step at position 1 in the mode TangentSpace has corrected
\* site 1
NeighbourCorrectedWitness ==
    /\ TEStepped /\ conf.mode = "TangentSpace"
    /\ ~hist.step.fwd /\ hist.step.i = 1
    /\ \E k \in Corrective : hist.last[k].i = 1
    /\ CalledIn("pdi += pdk", 1, DOMAIN hist.last)

\* worker p has sent or received a block in the second loop
HasBroadcast(p) ==
    \E op \in NonZero :
        \/ own(p, op) /\ sent[op] # NullBlock
        \/ c_ops[p][op].via = "broadcast"

\* worker p has left the first loop
PastRotations(p) == rpc[p].loop \in {"flush", "broadcast", "done"}

\* C28: in left_rotate / right_rotate a worker issues no broadcast before it
\* has issued every rotation it owns and, in the mode Auto, performed the
\* queued ones; every destination block available on the worker is
\* allocated before the flush, and exactly once; a destination block that
\* is allocated already when its turn comes ends the call on that worker
\* before anything is allocated or rotated for it
RotateOrdering ==
    rot.fn = "rotate" =>
        \A p \in Workers :
            /\ HasBroadcast(p) =>
                   /\ rpc[p].loop \in {"broadcast", "done"}
                   /\ \A op \in NonZero :
                          own(p, op) => /\ nrot[p][op] = 1
                                        /\ c_ops[p][op].data = "rotated"
            /\ \A op \in Ops :
                   c_ops[p][op].allocs
                       <= (IF op \in NonZero /\ available(p, op) THEN 1 ELSE 0)
            /\ PastRotations(p) =>
                   \A op \in NonZero :
                       available(p, op) => c_ops[p][op].allocs = 1
            /\ (rot.pre # 0 /\ available(p, rot.pre)) =>
                   /\ ~PastRotations(p)
                   /\ c_ops[p][rot.pre] = Allocated /\ nrot[p][rot.pre] = 0
            /\ rpc[p].loop = "aborted" => rot.mat[rpc[p].i] = rot.pre

\* left_rotate in the mode Auto: worker 1 has rotated the two operators it
\* owns, flushed, and sent the first of them; worker 0 has received it into
\* the block it had allocated once
RotateOrderingWitness ==
    /\ rot.fn = "rotate" /\ rot.dir = "left" /\ rot.mode = "Auto"
    /\ rot.mat = << 1, 2 >> /\ owner(1) = 1 /\ owner(2) = 1
    /\ repeat(1) /\ ~repeat(2)
    /\ HasBroadcast(0) /\ HasBroadcast(1)
    /\ c_ops[0][1].via = "broadcast" /\ c_ops[0][1].allocs = 1
    /\ c_ops[1][2].data = "rotated" /\ c_ops[1][2].allocs = 1

\* the loop over passes has ended before its bound, in a pass that found no
\* summand
EarlyExit == nt.at \in {"flush", "done"} /\ nt.i < pass_bound

\* C29: when the loop of numerical_transform ends in a pass that found no
\* summand, no defining sum has a summand at the index of that pass or
\* beyond, and every summand of every defining sum has been added or
\* queued, once and in order, which is what the remaining passes would
\* have left
EarlyExitDropsNothing ==
    EarlyExit =>
        \A k \in DOMAIN nt.exprs :
            /\ Len(nt.exprs[k].strings) < nt.i
            /\ nt.acc[k] \o nt.queued[k] = nt.exprs[k].strings
            /\ nt.at = "done" => nt.acc[k] = nt.exprs[k].strings

\* the loop ended in its third pass of four, the first name having two
\* summands and the second one
EarlyExitWitness ==
    /\ EarlyExit /\ nt.at = "done" /\ nt.i = 3 /\ pass_bound >= 4
    /\ Len(nt.exprs) = 2
    /\ Len(nt.exprs[1].strings) = 2 /\ Len(nt.exprs[2].strings) = 1
    /\ Len(nt.acc[1]) = 2 /\ Len(nt.acc[2]) = 1

\* position i is at the end of the chain a sweep in direction fwd runs to
ChainBoundary(i, fwd) == (fwd /\ i + 1 = n_sites - 1) \/ (~fwd /\ i = 0)

\* the running step of ImaginaryTE has failed an assertion
TEStepAborted == alg = "TE" /\ pc = "abort" /\ hist.step.end = "abort"

\* C30: ImaginaryTE in the mode TangentSpace with n_sub_sweeps > 1 is
\* stopped by an assertion in its first sub-sweep, which does not advance,
\* at the first position at the chain boundary and before anything is
\* propagated there, so that no later sub-sweep is ever run; with
\* n_sub_sweeps = 1 no step fails the assertion
TangentSpaceSingleSweep ==
    (alg = "TE" /\ conf.mode = "TangentSpace") =>
        LET st == hist.step
        IN  /\ TEStepAborted =>
                   /\ conf.n_sub_sweeps > 1 /\ ~st.advance
                   /\ ChainBoundary(st.i, st.fwd)
                   /\ Calls("expo_apply") = 0 /\ Calls("rk4_apply") = 0
                   /\ \A k \in 1..(Len(hist.visited) - 1) :
                          ~ChainBoundary(hist.visited[k], st.fwd)
            /\ (st.end = "ok" /\ ChainBoundary(st.i, st.fwd)) => st.advance
            /\ conf.n_sub_sweeps > 1 => (iw = 0 /\ isw = 0 /\ hist.calls <= 1)
            /\ conf.n_sub_sweeps = 1 => st.end # "abort"

\* with two sub-sweeps on four sites the first sub-sweep has stepped at 0
\* and 1 and is stopped at position 2
TangentSpaceSingleSweepWitness ==
    /\ TEStepAborted /\ conf.mode = "TangentSpace" /\ conf.n_sub_sweeps = 2
    /\ n_sites = 4 /\ hist.step.fwd /\ hist.step.i = 2
    /\ hist.visited = << 0, 1, 2 >>
    /\ Calls("expo_apply") = 0

\* a sweep of DMRG::solve has just ended
DMRGSwept ==
    /\ alg = "DMRG" /\ pc \in {"loop", "done"} /\ energies # << >>
    /\ sweep_res # << >>

\* the entry of the sweep that has just ended is that of the earliest step
\* of lowest first-root energy, and there is one entry per sweep of this call
BestStepRecorded ==
    DMRGSwept =>
        /\ \E k \in DOMAIN sweep_res :
               /\ Last(energies) = sweep_res[k]
               /\ \A j \in DOMAIN sweep_res :
                      sweep_res[k][1] <= sweep_res[j][1]
               /\ \A j \in 1..(k - 1) : sweep_res[j][1] > sweep_res[k][1]
        /\ Len(energies) = IF pc = "done" THEN iw + 1 ELSE iw

\* the stop rule evaluated on the first-root energies of the last two sweeps
FirstRootConverged ==
    /\ Len(energies) >= 2
    /\ TolOfCall(hist.calls) > 0
    /\ Abs(energies[Len(energies)][1] - energies[Len(energies) - 1][1])
           < TolOfCall(hist.calls)
    /\ noises[Len(energies)] = Last(noises)
    /\ bond_dims[Len(energies)] = Last(bond_dims)

\* C31 (as stated): DMRG::sweep returns the energies of the earliest step of
\* lowest first-root energy, DMRG::solve records one such entry per sweep
\* of the call, and solve stops early exactly when the first-root energies
\* of the last two entries differ by less than tol on the final schedule
\* values
BestFirstRootEnergyDecides ==
    /\ BestStepRecorded
    /\ DMRGSwept =>
           /\ pc = "loop" => ~FirstRootConverged
           /\ (pc = "done" /\ iw + 1 < args.n_sweeps) => FirstRootConverged

\* c times a sum of exponentials
Scale(b, c) == IF c = 0 THEN EmptyBag ELSE [x \in DOMAIN b |-> c * b[x]]

\* the sum over all the target states of weight times value
SumOverTargets ==
    accumulate([l \in 1..ex.nroots |->
                   Scale(ex.partition_weights[l].num, ex.values[l])])

\* C32 (as stated): the Expect object holds one partition weight per target
\* state, the weights sum to 1 and, where beta, energies and multiplicities
\* were supplied, are proportional to multiplicity * exp(-beta * (E - E_0));
\* the value reported for an operator is the sum over all target states of
\* weight times value, with either constructor
WeightedOverAllTargets ==
    ex.at = "done" =>
        LET pw == ex.partition_weights
        IN  /\ Len(pw) = ex.nroots
            /\ accumulate([l \in DOMAIN pw |-> pw[l].num]) = pw[1].den
            /\ \A l \in DOMAIN pw : pw[l].den = pw[1].den
            /\ ex.thermal =>
                   \A l \in DOMAIN pw :
                       pw[l].num =
                           Boltzmann(ex.multiplicities[l],
                                     ex.beta * (ex.energies[l]
                                                - ex.energies[1]))
            /\ ex.reported = [num |-> SumOverTargets, den |-> pw[1].den]

\* the call of Expect::solve with propagate = false
SolveWithoutPropagation == Expect_solve /\ ~args'.propagate

\* no truncation, no change of a tag or of a bond basis, no tensor saved
Untouched(ops) ==
    \A k \in DOMAIN ops :
        ops[k].op \notin {"canonical_form", "save_tensor", "save_wavefunction",
                          "save_left_dims", "save_right_dims",
                          "split_density_matrix", "multi_split_density_matrix",
                          "propagate_wfn", "propagate_multi_wfn"}

\* what the call leaves alone apart from the table of expectations
StateKept ==
    /\ canonical_form' = canonical_form
    /\ this_forward' = this_forward
    /\ me_center' = me_center
    /\ Untouched(hist'.last)

\* C33 (as stated): Expect::solve(propagate = false) leaves the canonical
\* form, the bond bases, the saved tensors and the stored direction flag as
\* they were, truncates nothing, and the table of expectations of an
\* earlier solve(propagate = true) is the same after the call as before
SolveWithoutPropagationKeepsTable ==
    [][SolveWithoutPropagation =>
           StateKept /\ expectations' = expectations]_vars

\* C33 (amended): Expect::solve(propagate = false) leaves the canonical
\* form, the bond bases, the saved tensors and the stored direction flag as
\* they were and truncates nothing, but the table of expectations of an
\* earlier call is emptied at every position
SolveWithoutPropagationClearsTable ==
    [][SolveWithoutPropagation =>
           /\ StateKept
           /\ \A k \in DOMAIN expectations : expectations'[k] = << >>]_vars

\* a measurement without propagation has followed a completed backward
\* sweep of an earlier call
SolveWithoutPropagationWitness ==
    /\ alg = "Expect" /\ hist.calls = 2 /\ ~args.propagate
    /\ pc = "done" /\ this_forward
    /\ hist.step.propagate = FALSE /\ hist.last # << >>

\* tensor_product_multiply on a reference, all_reduce requested, has
\* returned on every worker
MultiplyReduced ==
    /\ callee = "tensor_product_multiply" /\ Returned /\ all_reduce
    /\ \A p \in Workers : expr[p].type = "ExprRef"

\* the sum over the workers ws of what their expressions add to the output
RECURSIVE TermsOf(_)
TermsOf(ws) ==
    IF ws = {} THEN 0
    ELSE LET q == CHOOSE q \in ws : TRUE
         IN  Contribution(expr[q], 1, 1) + TermsOf(ws \ {q})

\* C34 (as stated): after tensor_product_multiply on a reference with
\* all_reduce, every worker's output is what it held before the call plus
\* the sum over all workers of their term contributions, each term counted
\* once, whatever the (replicated) output held before the call
MultiplyAddsEachTermOnce ==
    MultiplyReduced =>
        \A p \in Workers :
            vmats[p][1] = ptf_hist.entry[p][1] + TermsOf(Workers)

\* tensor_product_diagonal has returned on every worker, mat was zero
\* on entry
DiagonalReturned ==
    /\ callee = "tensor_product_diagonal" /\ Returned
    /\ \A p \in Workers : ptf_hist.entry[p][1] = 0

\* C35 (as stated): in a mode other than Auto, whatever the expression
\* (references nested in references included), once tensor_product_diagonal
\* has returned on all workers every worker holds the same output, the sum
\* over all workers of the diagonal contribution of each term counted once;
\* in mode Auto no all-reduce is issued
DiagonalAddsEachTermOnce ==
    /\ (DiagonalReturned /\ ptf_hist.mode # "Auto") =>
           \A p \in Workers : vmats[p][1] = TermsOf(Workers)
    /\ (callee = "tensor_product_diagonal" /\ ptf_hist.mode = "Auto") =>
           comm = 0

\* the workers that have entered the broadcast of operator op: its owner
\* has sent its block, another worker has received one
Joined(op) ==
    {p \in Workers : IF own(p, op) THEN sent[op] # NullBlock
                     ELSE c_ops[p][op].via = "broadcast"}

\* the position of operator op in the symbolic vector
EntryOf(op) == CHOOSE i \in DOMAIN rot.mat : rot.mat[i] = op

\* worker p has still to pass entry i of the second loop
Before(p, i) ==
    \/ rpc[p].loop \in {"rotate", "flush"}
    \/ rpc[p].loop = "broadcast" /\ rpc[p].i <= i

ActiveAt(ops, k) ==
    LET A == {j \in 1..(k - 1) : ops[j].op = "activate"}
    IN  IF A = {} THEN -1
        ELSE ops[CHOOSE j \in A : \A l \in A : l <= j].i

\* the operations that build or split a density matrix
BuildsOrSplits ==
    {"density_matrix", "density_matrix_with_perturbative_noise",
     "density_matrix_with_weights", "density_matrix_with_multi_target",
     "split_density_matrix", "split_wavefunction_svd",
     "multi_split_density_matrix"}

\* C37: an update function of DMRG, ImaginaryTE, Compress or Expect first
\* activates frame 0 (only what the sweep and blocking do themselves, the
\* signal check, the move of the environment and the single-site error,
\* and the failed assertion of Compress on bra = ket, comes before);
\* frame 1 is active only while the scratch vectors (perturbative noise,
\* RK4 stages) are placed in it or released from it, and frame 0 is
\* activated again right after; frame 0 is active whenever a density
\* matrix is built or split and when the function returns
ActiveFrame ==
    LET ops == hist.last
        acts == {j \in DOMAIN ops : ops[j].op = "activate"}
        first == IF acts = {} THEN Len(ops) + 1
                 ELSE CHOOSE j \in acts : \A l \in acts : j <= l
    IN  /\ arena.active = 0
        /\ \A k \in 1..(first - 1) :
               ops[k].op \in {"check_signal", "move_to",
                              "throw runtime_error", "assert"}
        /\ \A k \in acts :
               /\ k = first => ops[k].i = 0
               /\ ops[k].i = 1 =>
                      \E m \in acts :
                          /\ m >= k + 2 /\ ops[m].i = 0
                          /\ \A j \in (k + 1)..(m - 1) :
                                 /\ ops[j].op \in {"alloc", "free"}
                                 /\ ops[j].arg \in {"pket", "k"}
        /\ \A k \in DOMAIN ops :
               /\ ops[k].arg \in {"pket", "k"} =>
                      (ops[k].op \in {"alloc", "free"}
                          => ActiveAt(ops, k) = 1)
               /\ ops[k].op \in BuildsOrSplits => ActiveAt(ops, k) = 0
        /\ acts # {} => ActiveAt(ops, Len(ops) + 1) = 0

\* a step of DMRG with perturbative noise has released the noise vectors
\* from frame 1 and then split the density matrix
ActiveFrameWitness ==
    /\ alg = "DMRG" /\ hist.step.end = "ok"
    /\ \E k, m \in DOMAIN hist.last :
           /\ k < m
           /\ hist.last[k] = free("pket", "ket", hist.step.i)
           /\ ActiveAt(hist.last, k) = 1
           /\ hist.last[m].op = "split_density_matrix"
           /\ ActiveAt(hist.last, m) = 0

\* a call of DMRG::solve or Compress::solve with n_sweeps >= 1
ScheduleCall ==
    /\ alg \in {"DMRG", "Compress"} /\ hist.calls >= 1
    /\ args.n_sweeps >= 1

\* the sweeps the running call has started
SweepsOf == Len(hist.dirs)

\* the tol argument of the running call
TolOf == IF alg = "DMRG" THEN TolOfCall(hist.calls) ELSE args.tol

\* what is left of the schedule: the sweeps still allowed, and within a
\* sweep the positions still to visit
Remaining ==
    (args.n_sweeps - iw) * (n_sites + 2)
    + (IF pc = "loop" THEN n_sites + 1 ELSE Len(sweep_range))

\* the sweeps and steps of a call are bounded, and a returned call has run
\* at least one sweep, at least two if it stopped early, all with tol <= 0
ScheduleBounded ==
    ScheduleCall =>
        /\ SweepsOf <= args.n_sweeps
        /\ Len(hist.visited) <= n_sites - 1
        /\ (pc = "sweep" /\ me_dot = 2) =>
               Len(hist.visited) + Len(sweep_range) <= n_sites - 1
        /\ pc = "done" =>
               /\ SweepsOf >= 1
               /\ SweepsOf < args.n_sweeps => SweepsOf >= 2
               /\ TolOf <= 0 => SweepsOf = args.n_sweeps

\* every step of a running call returns, fails, or leaves less to do
ScheduleAdvances ==
    (ScheduleCall /\ pc \in {"loop", "sweep"}) =>
        \/ pc' \in {"done", "abort", "error"}
        \/ /\ pc' \in {"loop", "sweep"}
           /\ Remaining' < Remaining
           /\ Remaining' >= 0

\* C38: for n_sweeps >= 1 DMRG::solve and Compress::solve run at least one
\* and at most n_sweeps sweeps, stop early only after two sweeps, run all
\* n_sweeps sweeps when tol <= 0, every sweep has at most n_sites - 1
\* blocking steps, and every step of a call brings its end nearer
ScheduleTerminates == [] ScheduleBounded /\ [][ScheduleAdvances]_vars

\* a call with tol > 0 has returned after two of three sweeps, another call
\* with tol = 0 after all of its sweeps
ScheduleTerminatesWitness ==
    /\ ScheduleCall /\ pc = "done"
    /\ \/ SweepsOf = 2 /\ args.n_sweeps = 3 /\ alg = "Compress"
       \/ SweepsOf = 2 /\ args.n_sweeps = 2 /\ TolOf = 0

\* the positions of the last step's operations named in names on state w
StepOpsOn(names, w) ==
    {k \in DOMAIN hist.last :
        hist.last[k].op \in names /\ hist.last[k].who = w}

\* the positions at which the pre-split wavefunction of w is released
Released(w) ==
    {k \in DOMAIN hist.last : hist.last[k] = free("wfn", w, hist.step.i)}

\* the last step has formed the two-site tensor of w once, released it
\* once and, where the step propagates, split, saved and propagated it once
HandledOnce(w) ==
    LET n == IF hist.step.propagate THEN 1 ELSE 0
    IN  /\ Cardinality(StepOpsOn({"two_dot"}, w)) = 1
        /\ Cardinality(Released(w)) = 1
        /\ Cardinality(StepOpsOn({"split_density_matrix",
                              "multi_split_density_matrix"}, w)) = n
        /\ Cardinality(StepOpsOn({"save_tensor", "save_wavefunction"}, w)) = 2 * n
        /\ Cardinality(StepOpsOn({"propagate_wfn", "propagate_multi_wfn"}, w)) = n

\* C39: a completed blocking step of Expect (single- or multi-target)
\* handles the one state once when bra and ket are the same object, with a
\* single release of its pre-split wavefunction, and handles each of two
\* distinct states once, the ket's wavefunction being released before the
\* bra's; a step of Compress on bra = ket fails on the assertion with no
\* tensor formed, split or saved
BraKetHandledOnce ==
    /\ (alg = "Expect" /\ hist.step.end = "ok") =>
           IF bra_is_ket
           THEN /\ HandledOnce("ket")
                /\ StepOpsOn({"two_dot", "alloc", "free"}, "bra") = {}
           ELSE /\ HandledOnce("ket") /\ HandledOnce("bra")
                /\ \A k \in Released("ket"), b \in Released("bra") : k < b
    /\ (alg = "Compress" /\ bra_is_ket /\ hist.step.i >= 0) =>
           /\ hist.step.end = "abort" \/ me_dot = 1
           /\ \A k \in DOMAIN hist.last :
                  hist.last[k].op \in {"check_signal", "move_to", "assert",
                                       "throw runtime_error"}

\* a propagating multi-target step of Expect on one state object has
\* completed
BraKetSameWitness ==
    /\ alg = "Expect" /\ hist.step.end = "ok" /\ bra_is_ket
    /\ hist.step.propagate
    /\ StepOpsOn({"multi_split_density_matrix"}, "ket") # {}
    /\ Cardinality(Released("ket")) = 1

\* a step of a solve call entered with me->dot = 1: the call itself, the
\* head of its sweep, the blocking that throws
SingleSiteCallStep ==
    /\ me_dot = 1 /\ args.n_sweeps >= 1
    /\ \/ DMRG_solve \/ TE_solve \/ Compress_solve \/ Expect_solve
       \/ pc \in {"loop", "sweep"}

\* the recorded results, the schedules and the stored direction flag
Recorded ==
    << energies, normsqs, norms, expectations, bond_dims, ket_bond_dims,
       noises, davidson_conv_thrds, this_forward >>

\* C40 (as stated): a solve call of DMRG, ImaginaryTE, Compress or Expect
\* that fails with the single-site runtime error leaves the recorded
\* energies, squared norms, norms and expectations, the schedules and the
\* stored direction flag as they were before the call
SingleSiteErrorLeavesObject ==
    [][SingleSiteCallStep => Recorded' = Recorded]_vars

====
